---- MODULE Spec2Model ----
(***************************************************************************)
(* The dispatch engine of backend/: the Celery task run_dispatch_task      *)
(* (celery_worker.py), the status endpoint get_dispatch_status (main.py),  *)
(* the GA solver (optimization.py) and the routing client (ors_client.py). *)
(*                                                                         *)
(* One dispatch job is followed from submission to the moment the job      *)
(* runner has stored its result; the status endpoint may be polled         *)
(* between any two steps.                                                  *)
(***************************************************************************)
EXTENDS Integers, Sequences, FiniteSets, TLC

(***************************************************************************)
(* Bounds of the model.                                                    *)
(***************************************************************************)
\* rows of the vehicles table: ids 1..NumVehicles
NumVehicles == 2
\* rows of the orders table: ids 1..NumOrders
NumOrders == 3
\* the largest number of customers handed to one GeneticAlgorithm when its
\* matrix step is examined on its own (one more than the oracle's cap allows
\* beside the depot)
MaxCustomers == 51
\* the largest cluster given to a GeneticAlgorithm whose population is followed
GaCustomers == 2
\* the largest `generations` and `patience` given to such a GeneticAlgorithm
MaxGenerations == 2
MaxPatience == 2
\* the longest chromosome handed to calculate_fitness when it is examined
\* on its own
FitnessCustomers == 3
\* the longest parents handed to ordered_crossover when it is examined on
\* its own
CrossoverGenes == 4

(***************************************************************************)
(* Program constants.                                                      *)
(***************************************************************************)
\* float('inf'); every real distance is >= 0, so -1 is free to stand for it
Inf == -1
CAPACITY_PENALTY == 1000
MaxMatrixLocations == 50
population_size == 50
generations == 200
tournament_size == 5

(***************************************************************************)
(* The database the job reads.                                             *)
(***************************************************************************)
VehicleIds == 1..NumVehicles
OrderIds == 1..NumOrders
\* the depots table holds one row
DepotIds == {1}
\* Vehicle.capacity values the vehicles table may hold
Capacities == {5, 10}

\* Order.customer_id: orders 1 and 3 belong to the same customer (2); every
\* fourth order belongs to the customer whose id equals the depot's id (the
\* customers and depots tables number their rows independently)
CustomerOf(o) ==
  CASE o % 4 = 1 -> 2
    [] o % 4 = 2 -> 3
    [] o % 4 = 3 -> 2
    [] OTHER -> 1

\* Order.demand
DemandOf(o) == IF o % 4 \in {1, 2} THEN 6 ELSE 1

\* (x, y) of a row, as one number per distinct place: the depot is place 0,
\* customer c is place c
DepotXY(d) == 0
CustomerXY(c) == c

\* ids a request may name: those of the table and one id no row has
RequestVehicleIds == 1..(NumVehicles + 1)
RequestOrderIds == 1..(NumOrders + 1)
RequestDepotIds == DepotIds \cup {2}

(***************************************************************************)
(* models.TaskStatus                                                       *)
(***************************************************************************)
TaskStatus == {"PENDING", "IN_PROGRESS", "COMPLETED", "FAILED"}

(***************************************************************************)
(* Helpers on sequences.                                                   *)
(***************************************************************************)
Range(s) == {s[k] : k \in 1..Len(s)}

Front(s) == SubSeq(s, 1, Len(s) - 1)

Last(s) == s[Len(s)]

\* the sequences that list every element of the finite set S exactly once
Orderings(S) ==
  {p \in [1..Cardinality(S) -> S] : \A a, b \in 1..Cardinality(S) : a # b => p[a] # p[b]}

\* addition of distances, with float('inf') absorbing
Plus(a, b) == IF a = Inf \/ b = Inf THEN Inf ELSE a + b

\* a < b on distances
Less(a, b) == IF a = Inf THEN FALSE ELSE IF b = Inf THEN TRUE ELSE a < b

(***************************************************************************)
(* The routing oracle (openrouteservice) as seen through ors_client.       *)
(***************************************************************************)
\* road distance from place p to place q; one-way streets make it asymmetric
Road(p, q) == IF p = q THEN 0 ELSE IF p < q THEN 2 * (q - p) ELSE 2 * (p - q) + 1

\* what get_distance_matrix may hand back for n coordinates: None (the client
\* swallowed an error), a reply without the key 'distances', the full matrix,
\* a matrix whose edge from the first to the second coordinate is null (no
\* road found), or a matrix whose edges out of the first coordinate are all
\* null (no road leaves that place)
MatrixReplies == {"none", "no_distances", "full", "null_edge", "depot_cut_off"}

\* distances[a][b] of the reply, a and b counted from 1
MatrixEntry(reply, coords, a, b) ==
  IF reply = "null_edge" /\ a = 1 /\ b = 2 THEN Inf
  ELSE IF reply = "depot_cut_off" /\ a = 1 /\ b # 1 THEN Inf
  ELSE Road(coords[a], coords[b])

\* _precompute_distance_matrix, lines 74-78: the safeguard on the number of
\* locations ([self.depot] + self.customers)
TooManyPoints_OffByOne(all_locations) == Len(all_locations) > MaxMatrixLocations + 1

TooManyPoints(all_locations) == Len(all_locations) > MaxMatrixLocations

\* _precompute_distance_matrix, line 84, negated: the reply can be used
MatrixUsable_AnyDict(reply) == reply # "none"

MatrixUsable(reply) == reply # "none" /\ reply # "no_distances"

(***************************************************************************)
(* optimization.py: Location, Chromosome, GeneticAlgorithm                 *)
(***************************************************************************)
Location(id, xy, demand) == [id |-> id, xy |-> xy, demand |-> demand]

\* Chromosome.__init__
Chromosome(genes) ==
  [genes |-> genes, fitness |-> Inf, routes |-> <<>>, geometries |-> <<>>,
   total_distance |-> 0, capacity_violation |-> 0]

\* the value best_chromosome holds before any run has returned
NoChromosome == Chromosome(<<>>)

\* _precompute_distance_matrix, the double loop: the dictionary keyed by
\* (from_loc.id, to_loc.id); a later pair with the same ids overwrites an
\* earlier one, so each key keeps the entry of the last positions with those ids
LastIndexOf(locs, id) ==
  CHOOSE k \in 1..Len(locs) :
    /\ locs[k].id = id
    /\ \A m \in (k + 1)..Len(locs) : locs[m].id # id

DistanceMatrix(reply, locs) ==
  LET ids == {locs[k].id : k \in 1..Len(locs)}
      coords == [k \in 1..Len(locs) |-> locs[k].xy]
  IN [key \in ids \X ids |->
        MatrixEntry(reply, coords, LastIndexOf(locs, key[1]), LastIndexOf(locs, key[2]))]

\* self.distance_matrix.get((from_id, to_id), float('inf'))
Lookup(dm, from_id, to_id) ==
  IF <<from_id, to_id>> \in DOMAIN dm THEN dm[<<from_id, to_id>>] ELSE Inf

\* the greedy split that opens a new sub-route only once the current one
\* is over the capacity
RECURSIVE SplitRoutes_LateSplit(_, _, _, _, _, _)
SplitRoutes_LateSplit(genes, k, depot_loc, capacity, current_route, current_demand) ==
  IF k > Len(genes)
  THEN IF Len(current_route) > 1 THEN <<current_route>> ELSE <<>>
  ELSE IF current_demand > capacity
       THEN <<current_route>>
            \o SplitRoutes_LateSplit(genes, k + 1, depot_loc, capacity,
                                     <<depot_loc, genes[k]>>, genes[k].demand)
       ELSE SplitRoutes_LateSplit(genes, k + 1, depot_loc, capacity,
                                  Append(current_route, genes[k]),
                                  current_demand + genes[k].demand)

\* the greedy split losing the gene that opens a new sub-route
RECURSIVE SplitRoutes_DropOpener(_, _, _, _, _, _)
SplitRoutes_DropOpener(genes, k, depot_loc, capacity, current_route, current_demand) ==
  IF k > Len(genes)
  THEN IF Len(current_route) > 1 THEN <<current_route>> ELSE <<>>
  ELSE IF current_demand + genes[k].demand > capacity
       THEN <<current_route>>
            \o SplitRoutes_DropOpener(genes, k + 1, depot_loc, capacity,
                                      <<depot_loc>>, 0)
       ELSE SplitRoutes_DropOpener(genes, k + 1, depot_loc, capacity,
                                   Append(current_route, genes[k]),
                                   current_demand + genes[k].demand)

\* calculate_fitness, step 1: the greedy split of the genes into sub-routes
RECURSIVE SplitRoutes(_, _, _, _, _, _)
SplitRoutes(genes, k, depot_loc, capacity, current_route, current_demand) ==
  IF k > Len(genes)
  THEN IF Len(current_route) > 1 THEN <<current_route>> ELSE <<>>
  ELSE IF current_demand + genes[k].demand > capacity
       THEN <<current_route>>
            \o SplitRoutes(genes, k + 1, depot_loc, capacity,
                           <<depot_loc, genes[k]>>, genes[k].demand)
       ELSE SplitRoutes(genes, k + 1, depot_loc, capacity,
                        Append(current_route, genes[k]),
                        current_demand + genes[k].demand)

DecodeRoutes(genes, depot_loc, capacity) ==
  SplitRoutes(genes, 1, depot_loc, capacity, <<depot_loc>>, 0)

RECURSIVE RouteDemandFrom(_, _)
RouteDemandFrom(route, k) ==
  IF k > Len(route) THEN 0 ELSE route[k].demand + RouteDemandFrom(route, k + 1)

\* sum(loc.demand for loc in route)
RouteDemand(route) == RouteDemandFrom(route, 1)

RECURSIVE LegsFrom(_, _, _)
LegsFrom(route, k, dm) ==
  IF k >= Len(route) THEN 0
  ELSE Plus(Lookup(dm, route[k].id, route[k + 1].id), LegsFrom(route, k + 1, dm))

\* calculate_fitness, step 2, for one route: the legs and the leg back to the depot
RouteDistance(route, depot_loc, dm) ==
  Plus(LegsFrom(route, 1, dm), Lookup(dm, route[Len(route)].id, depot_loc.id))

RECURSIVE TotalDistanceFrom(_, _, _, _)
TotalDistanceFrom(routes, k, depot_loc, dm) ==
  IF k > Len(routes) THEN 0
  ELSE Plus(RouteDistance(routes[k], depot_loc, dm),
            TotalDistanceFrom(routes, k + 1, depot_loc, dm))

RECURSIVE ViolationFrom(_, _, _)
ViolationFrom(routes, k, capacity) ==
  IF k > Len(routes) THEN 0
  ELSE (IF RouteDemand(routes[k]) > capacity
        THEN RouteDemand(routes[k]) - capacity ELSE 0)
       + ViolationFrom(routes, k + 1, capacity)

\* calculate_fitness for one chromosome
Evaluate(genes, depot_loc, capacity, dm) ==
  LET routes == DecodeRoutes(genes, depot_loc, capacity)
      dist == TotalDistanceFrom(routes, 1, depot_loc, dm)
      viol == ViolationFrom(routes, 1, capacity)
  IN [genes |-> genes,
      fitness |-> Plus(dist, viol * CAPACITY_PENALTY),
      routes |-> routes,
      geometries |-> <<>>,
      total_distance |-> dist,
      capacity_violation |-> viol]

\* ordered_crossover: sorted(random.sample(range(size), 2)); the sample does
\* not exist (ValueError) when size < 2
CutPoints(size) == {c \in (0..(size - 1)) \X (0..(size - 1)) : c[1] < c[2]}

\* two of the customers are equal locations (same id, place and demand):
\* `gene not in child` then drops both when the copied segment holds one of
\* them, and the fill loop of ordered_crossover runs out of genes
HasEqualLocations(customers) ==
  \E a, b \in 1..Len(customers) : a # b /\ customers[a] = customers[b]

(***************************************************************************)
(* celery_worker.py: helpers of run_dispatch_task                          *)
(***************************************************************************)
\* sum(o.demand for o in c), c a list of orders (order ids here)
RECURSIVE ClusterDemand(_)
ClusterDemand(c) == IF c = <<>> THEN 0 ELSE DemandOf(Head(c)) + ClusterDemand(Tail(c))

\* list.sort(key=..., reverse=True) is stable: c goes behind every cluster
\* already placed whose demand is >= its own
InsertByDemand(c, sorted) ==
  LET pos == Cardinality({j \in 1..Len(sorted) : ClusterDemand(sorted[j]) >= ClusterDemand(c)})
  IN SubSeq(sorted, 1, pos) \o <<c>> \o SubSeq(sorted, pos + 1, Len(sorted))

SortClusters_Unsorted(cs) == cs

RECURSIVE SortClusters(_)
SortClusters(cs) ==
  IF cs = <<>> THEN <<>> ELSE InsertByDemand(Last(cs), SortClusters(Front(cs)))

\* any(order_clusters)
AnyCluster(cs) == \E j \in 1..Len(cs) : cs[j] # <<>>

Fits_IgnoreCapacity(cluster, capacity) == cluster # <<>>

\* "if not cluster: continue" and the capacity test of the scan
Fits(cluster, capacity) == cluster # <<>> /\ ClusterDemand(cluster) <= capacity

BestClusterIdx_FirstNonEmpty(cs, capacity) ==
  IF \E j \in 1..Len(cs) : cs[j] # <<>>
  THEN CHOOSE j \in 1..Len(cs) : cs[j] # <<>> /\ \A m \in 1..(j - 1) : cs[m] = <<>>
  ELSE -1

\* the scan for best_cluster_idx (positions counted from 1); -1 when no cluster fits
BestClusterIdx(cs, capacity) ==
  IF \E j \in 1..Len(cs) : Fits(cs[j], capacity)
  THEN CHOOSE j \in 1..Len(cs) :
         Fits(cs[j], capacity) /\ \A m \in 1..(j - 1) : ~Fits(cs[m], capacity)
  ELSE -1

Pop_First(cs, idx) == Tail(cs)

\* list.pop(idx): the list without position idx
Pop(cs, idx) == SubSeq(cs, 1, idx - 1) \o SubSeq(cs, idx + 1, Len(cs))

\* the rows of the vehicles table with id in vehicle_ids, ORDER BY capacity
\* DESC; rows of equal capacity come in an order the database chooses
VehicleQueries(table, vehicle_ids) ==
  {vs \in Orderings(vehicle_ids \cap VehicleIds) :
     \A a, b \in 1..Len(vs) : a < b => table[vs[a]] >= table[vs[b]]}

\* the rows of the orders table with id in order_ids, in primary-key order
RECURSIVE OrderQueryFrom(_, _)
OrderQueryFrom(o, order_ids) ==
  IF o > NumOrders THEN <<>>
  ELSE (IF o \in order_ids THEN <<o>> ELSE <<>>) \o OrderQueryFrom(o + 1, order_ids)

OrderQuery(order_ids) == OrderQueryFrom(1, order_ids)

\* Depot row with the id, or 0 for None
DepotQuery(depot_id) == IF depot_id \in DepotIds THEN depot_id ELSE 0

\* line 29: not vehicles or not orders or not depot
InvalidLoad_DepotOnly(vs, os, d) == d = 0

InvalidLoad(vs, os, d) == vs = <<>> \/ os = <<>> \/ d = 0

\* KMeans(n_clusters).fit_predict(customer_coords): a label in 1..n_clusters
\* (0..n_clusters-1 in the code) for every order; orders at the same
\* coordinates get the same label
KMeansLabelings(os, num_clusters) ==
  {l \in [1..Len(os) -> 1..num_clusters] :
     \A a, b \in 1..Len(os) :
        CustomerXY(CustomerOf(os[a])) = CustomerXY(CustomerOf(os[b])) => l[a] = l[b]}

RECURSIVE OrdersLabelled(_, _, _, _)
OrdersLabelled(os, labels, label, k) ==
  IF k > Len(os) THEN <<>>
  ELSE (IF labels[k] = label THEN <<os[k]>> ELSE <<>>)
       \o OrdersLabelled(os, labels, label, k + 1)

\* order_clusters[clusters[i]].append(order)
BuildClusters(os, labels, num_clusters) ==
  [label \in 1..num_clusters |-> OrdersLabelled(os, labels, label, 1)]

Min(a, b) == IF a <= b THEN a ELSE b

\* [depot_loc] + customer_locs
BuildLocations(depot_id, cluster) ==
  <<Location(depot_id, DepotXY(depot_id), 0)>>
  \o [k \in 1..Len(cluster) |->
        Location(CustomerOf(cluster[k]), CustomerXY(CustomerOf(cluster[k])),
                 DemandOf(cluster[k]))]

\* the stops of a task: one per location of the routes whose id differs from
\* the depot's, numbered by stop_counter
RECURSIVE Flatten(_)
Flatten(routes) == IF routes = <<>> THEN <<>> ELSE Head(routes) \o Flatten(Tail(routes))

\* the same with stop_counter set back to 1 for every sub-route
RECURSIVE StopsOf_PerRoute(_, _, _)
StopsOf_PerRoute(task_id, routes, depot_id) ==
  IF routes = <<>> THEN <<>>
  ELSE LET visited == SelectSeq(Head(routes), LAMBDA loc : loc.id # depot_id)
       IN [k \in 1..Len(visited) |->
             [task_id |-> task_id, customer_id |-> visited[k].id, stop_order |-> k]]
          \o StopsOf_PerRoute(task_id, Tail(routes), depot_id)

StopsOf(task_id, routes, depot_id) ==
  LET visited == SelectSeq(Flatten(routes), LAMBDA loc : loc.id # depot_id)
  IN [k \in 1..Len(visited) |->
        [task_id |-> task_id, customer_id |-> visited[k].id, stop_order |-> k]]

(***************************************************************************)
(* State.                                                                  *)
(***************************************************************************)
VARIABLES
  db_vehicles,        \* the vehicles table: id -> capacity
  tasks,              \* the tasks table, in id order
  task_stops,         \* the task_stops table
  request,            \* dispatch_request_data
  state,              \* the job's state in the result backend
  info,               \* the job's meta / result in the result backend
  pc,                 \* where run_dispatch_task stands
  exc,                \* the exception in flight
  retval,             \* the value the task function returned
  vehicles,           \* local: the loaded vehicles (ids), capacity descending
  orders,             \* local: the loaded orders (ids)
  depot,              \* local: the loaded depot (id), 0 for None
  order_clusters,     \* local: list of lists of orders
  created_tasks_ids,  \* local
  i,                  \* local: position of the loop over vehicles, from 1
  ga,                 \* the GeneticAlgorithm instance of the current vehicle
  best_chromosome,    \* local: what ga.run() returned
  events,             \* history: the update_state calls, in order
  scans,              \* history: one entry per vehicle the loop has scanned for
  ga_runs,            \* history: the vehicles (ids) ga.run() was called for
  ga_returns,         \* history: the vehicles (ids) ga.run() returned for
  matrix_calls,       \* history: calls of ors_client.get_distance_matrix
  route_calls,        \* history: calls of ors_client.get_route
  matrix_args,        \* history: the coordinate lists get_distance_matrix was given
  matrix_replies,     \* history: what get_distance_matrix handed back
  population,         \* GeneticAlgorithm.population
  new_population,     \* run: the parents selection() returned
  offspring_population, \* crossover_and_mutate: the offspring built so far
  generation,         \* run: the generations completed
  best_fitness_so_far,
  generations_without_improvement,
  fitness_history,    \* history: the least fitness of each population run() has formed
  cut,                \* ordered_crossover: (start, end) as drawn, <<>> outside a call
  other,              \* a second job on another worker: its backend entry and locals
  running,            \* which of the two jobs the variables above belong to
  poll                \* the last response of get_dispatch_status

vars ==
  <<db_vehicles, tasks, task_stops, request, state, info, pc, exc, retval,
    vehicles, orders, depot, order_clusters, created_tasks_ids, i, ga,
    best_chromosome, events, scans, ga_runs, ga_returns, matrix_calls,
    route_calls, matrix_args, matrix_replies, population, new_population,
    offspring_population, generation, best_fitness_so_far,
    generations_without_improvement, fitness_history, cut, other, running,
    poll>>

dbVars == <<db_vehicles, tasks, task_stops>>
\* the generational loop of GeneticAlgorithm.run
loopStateVars ==
  <<population, new_population, offspring_population, generation,
    best_fitness_so_far, generations_without_improvement, fitness_history>>
\* what no step of run_dispatch_task assigns (the job's steps take the
\* generational loop as one step and keep no population)
fixedVars == <<request, loopStateVars, cut, other, running>>
backendVars == <<state, info>>
loadVars == <<vehicles, orders, depot>>
loopVars == <<order_clusters, created_tasks_ids, i>>
gaVars == <<ga, best_chromosome>>
oracleVars == <<matrix_calls, route_calls, matrix_args, matrix_replies>>
runVars == <<scans, ga_runs, ga_returns>>

(***************************************************************************)
(* Values of the result backend and of the task.                           *)
(***************************************************************************)
NoResult == [total_tasks_created |-> 0, tasks |-> <<>>]

\* a dictionary with the keys in `keys`; the other fields are unused
NoInfo ==
  [keys |-> {}, status |-> "", result |-> NoResult, error |-> "",
   exc_type |-> "", exc_message |-> ""]

\* meta={'status': msg}
ProgressMeta(msg) == [NoInfo EXCEPT !.keys = {"status"}, !.status = msg]

\* meta={'exc_type': type(e).__name__, 'exc_message': str(e)}
FailureMeta(e) ==
  [NoInfo EXCEPT !.keys = {"exc_type", "exc_message"},
                 !.exc_type = e.type, !.exc_message = e.message]

\* {'status': 'COMPLETE', 'result': ...}
CompleteValue(result) ==
  [NoInfo EXCEPT !.keys = {"status", "result"}, !.status = "COMPLETE", !.result = result]

\* {'status': 'FAILURE', 'error': str(e)}
FailureValue(e) ==
  [NoInfo EXCEPT !.keys = {"status", "error"}, !.status = "FAILURE", !.error = e.message]

NoExc == [type |-> "", message |-> ""]

InvalidData == [type |-> "Exception", message |-> "Invalid data: Vehicles, orders, or depot not found."]
TooManyLocations == [type |-> "Exception", message |-> "Too many locations for distance matrix calculation. Maximum is 50."]
MatrixFailed == [type |-> "Exception", message |-> "Failed to retrieve distance matrix from openrouteservice."]
SampleError == [type |-> "ValueError", message |-> "Sample larger than population or is negative"]
NoAssigned == [type |-> "AttributeError", message |-> "ASSIGNED"]
IndexError == [type |-> "IndexError", message |-> "list index out of range"]

NoGA == [locations |-> <<>>, vehicle_capacity |-> 0, distance_matrix |-> [key \in {} |-> 0]]

NoPoll == [finished |-> FALSE, status |-> "", result |-> NoResult, error |-> ""]

\* TaskStatusResponse(task_id, status, result, error), with whether the job
\* had finished when the poll was made
Response(status, result, error) ==
  [finished |-> pc = "done", status |-> status, result |-> result, error |-> error]

\* the poll raised instead of answering (the framework answers HTTP 500)
PollError(kind) == Response("HTTP 500", NoResult, kind)

\* no second job has been submitted
Alone ==
  /\ other = <<>>
  /\ running = 1

\* GeneticAlgorithm.__init__, line 67, and a run whose loop has not begun
NoPopulation ==
  /\ population = <<>>
  /\ new_population = <<>>
  /\ offspring_population = <<>>
  /\ generation = 0
  /\ best_fitness_so_far = Inf
  /\ generations_without_improvement = 0
  /\ fitness_history = <<>>
  /\ cut = <<>>

(***************************************************************************)
(* Init: the job has been submitted (run_dispatcher_async) and not started *)
(***************************************************************************)
Init ==
  /\ db_vehicles \in [VehicleIds -> Capacities]
  /\ tasks = <<>>
  /\ task_stops = <<>>
  /\ request \in [vehicle_ids : SUBSET RequestVehicleIds,
                  order_ids : SUBSET RequestOrderIds,
                  depot_id : RequestDepotIds]
  /\ state = "PENDING"
  /\ info = NoInfo
  /\ pc = "start"
  /\ exc = NoExc
  /\ retval = NoInfo
  /\ vehicles = <<>>
  /\ orders = <<>>
  /\ depot = 0
  /\ order_clusters = <<>>
  /\ created_tasks_ids = <<>>
  /\ i = 1
  /\ ga = NoGA
  /\ best_chromosome = NoChromosome
  /\ events = <<>>
  /\ scans = <<>>
  /\ ga_runs = <<>>
  /\ ga_returns = <<>>
  /\ matrix_calls = 0
  /\ route_calls = 0
  /\ matrix_args = <<>>
  /\ matrix_replies = <<>>
  /\ NoPopulation
  /\ Alone
  /\ poll = NoPoll

(***************************************************************************)
(* run_dispatch_task, step by step.                                        *)
(***************************************************************************)
\* self.update_state(state='PROGRESS', meta={'status': msg})
UpdateProgress(msg) ==
  /\ state' = "PROGRESS"
  /\ info' = ProgressMeta(msg)
  /\ events' = Append(events, msg)

\* an exception leaves the try block for the except clause
Raise(e) ==
  /\ pc' = "except"
  /\ exc' = e

\* lines 21-23: the request validates (it is a DispatchRequest dumped by the
\* endpoint) and the first progress event is emitted
StartFetching ==
  /\ pc = "start"
  /\ UpdateProgress("Fetching data...")
  /\ pc' = "fetch"
  /\ UNCHANGED <<dbVars, fixedVars, exc, retval, loadVars, loopVars, gaVars,
                 runVars, oracleVars, poll>>

\* lines 25-30: the three queries and the check of what they found
FetchData ==
  /\ pc = "fetch"
  /\ \E vs \in VehicleQueries(db_vehicles, request.vehicle_ids) :
       LET os == OrderQuery(request.order_ids)
           d == DepotQuery(request.depot_id)
       IN /\ vehicles' = vs
          /\ orders' = os
          /\ depot' = d
          /\ IF InvalidLoad(vs, os, d)
             THEN Raise(InvalidData)
             ELSE pc' = "clustering" /\ exc' = exc
  /\ UNCHANGED <<dbVars, fixedVars, backendVars, retval, loopVars, gaVars,
                 events, runVars, oracleVars, poll>>

\* line 32
StartClustering ==
  /\ pc = "clustering"
  /\ UpdateProgress("Clustering orders...")
  /\ pc' = "cluster"
  /\ UNCHANGED <<dbVars, fixedVars, exc, retval, loadVars, loopVars, gaVars,
                 runVars, oracleVars, poll>>

\* lines 34-44: K, the early return for K = 0, KMeans and the cluster lists
ClusterOrders ==
  /\ pc = "cluster"
  /\ LET num_clusters == Min(Len(vehicles), Len(orders))
     IN IF num_clusters = 0
        THEN /\ retval' = CompleteValue(NoResult)
             /\ pc' = "returned"
             /\ UNCHANGED order_clusters
        ELSE /\ \E labels \in KMeansLabelings(orders, num_clusters) :
                  order_clusters' = BuildClusters(orders, labels, num_clusters)
             /\ pc' = "assigning"
             /\ UNCHANGED retval
  /\ UNCHANGED <<dbVars, fixedVars, backendVars, exc, loadVars, created_tasks_ids,
                 i, gaVars, events, runVars, oracleVars, poll>>

\* lines 46-48 without the progress event
StartAssigning_Silent ==
  /\ pc = "assigning"
  /\ created_tasks_ids' = <<>>
  /\ i' = 1
  /\ pc' = "loop"
  /\ UNCHANGED <<dbVars, fixedVars, backendVars, events, exc, retval, loadVars,
                 order_clusters, gaVars, runVars, oracleVars, poll>>

\* lines 46-48
StartAssigning ==
  /\ pc = "assigning"
  /\ UpdateProgress("Assigning clusters and optimizing routes...")
  /\ created_tasks_ids' = <<>>
  /\ i' = 1
  /\ pc' = "loop"
  /\ UNCHANGED <<dbVars, fixedVars, exc, retval, loadVars, order_clusters, gaVars,
                 runVars, oracleVars, poll>>

\* lines 50-72: one pass of the loop over the vehicles, up to the
\* construction of the GeneticAlgorithm, or the end of the loop
AssignVehicle ==
  /\ pc = "loop"
  /\ IF i > Len(vehicles) \/ ~AnyCluster(order_clusters)
     THEN /\ pc' = "finalize"
          /\ UNCHANGED <<order_clusters, i, ga, scans>>
     ELSE LET vehicle == vehicles[i]
              capacity == db_vehicles[vehicle]
              sorted == SortClusters(order_clusters)
              best_cluster_idx == BestClusterIdx(sorted, capacity)
              scan == [vehicle |-> vehicle, pool |-> order_clusters,
                       clusters |-> sorted, best_cluster_idx |-> best_cluster_idx,
                       remaining |-> <<>>]
          IN /\ IF best_cluster_idx # -1
                THEN /\ order_clusters' = Pop(sorted, best_cluster_idx)
                     /\ ga' = [locations |-> BuildLocations(depot, sorted[best_cluster_idx]),
                               vehicle_capacity |-> capacity,
                               distance_matrix |-> NoGA.distance_matrix]
                     /\ pc' = "ga_run"
                     /\ UNCHANGED i
                ELSE /\ order_clusters' = sorted
                     /\ i' = i + 1
                     /\ pc' = "loop"
                     /\ UNCHANGED ga
             /\ scans' = Append(scans, [scan EXCEPT !.remaining = order_clusters'])
  /\ UNCHANGED <<dbVars, fixedVars, backendVars, exc, retval, loadVars,
                 created_tasks_ids, best_chromosome, events, ga_runs,
                 ga_returns, oracleVars, poll>>

\* line 73 into GeneticAlgorithm.run, line 100: _precompute_distance_matrix
PrecomputeDistanceMatrix ==
  /\ pc = "ga_run"
  /\ ga_runs' = Append(ga_runs, vehicles[i])
  /\ IF TooManyPoints(ga.locations)
     THEN /\ Raise(TooManyLocations)
          /\ UNCHANGED <<ga, matrix_calls, matrix_args, matrix_replies>>
     ELSE /\ matrix_calls' = matrix_calls + 1
          /\ matrix_args' = Append(matrix_args, [k \in 1..Len(ga.locations) |-> ga.locations[k].xy])
          /\ \E reply \in MatrixReplies :
               /\ matrix_replies' = Append(matrix_replies, reply)
               /\ IF ~MatrixUsable(reply)
                  THEN Raise(MatrixFailed) /\ UNCHANGED ga
                  ELSE /\ ga' = [ga EXCEPT !.distance_matrix = DistanceMatrix(reply, ga.locations)]
                       /\ pc' = "ga_evolve"
                       /\ exc' = exc
  /\ UNCHANGED <<dbVars, fixedVars, backendVars, retval, loadVars, loopVars,
                 best_chromosome, events, scans, ga_returns, route_calls, poll>>

\* GeneticAlgorithm.run, lines 103-142: the initial population, the
\* generations and the choice of the best individual.  The random draws are
\* choices: `crossed` says whether some pair of some generation drew
\* random.random() < crossover_rate, `short` whether a crossover ran out of
\* genes (it must, when the two customers of a pair are equal locations),
\* `order` is the permutation the best individual of the final population
\* carries.
Evolve ==
  /\ pc = "ga_evolve"
  /\ LET depot_loc == Head(ga.locations)
         customers == Tail(ga.locations)
         size == Len(customers)
     IN \E crossed \in BOOLEAN :
          IF generations > 0 /\ tournament_size > population_size
          THEN Raise(SampleError) /\ UNCHANGED best_chromosome
          ELSE IF generations > 0 /\ population_size > 0 /\ crossed /\ CutPoints(size) = {}
          THEN Raise(SampleError) /\ UNCHANGED best_chromosome
          ELSE \E short \in {crossed /\ HasEqualLocations(customers),
                              crossed /\ HasEqualLocations(customers) /\ size = 2} :
                 IF short
                 THEN Raise(IndexError) /\ UNCHANGED best_chromosome
                 ELSE \E order \in Orderings(1..size) :
                        /\ best_chromosome' =
                             Evaluate([k \in 1..size |-> customers[order[k]]], depot_loc,
                                      ga.vehicle_capacity, ga.distance_matrix)
                        /\ pc' = "ga_geometries"
                        /\ exc' = exc
  /\ UNCHANGED <<dbVars, fixedVars, backendVars, retval, loadVars, loopVars, ga,
                 events, runVars, oracleVars, poll>>

\* coords of one get_route call: the route's locations and the depot again
RouteCoords(route, depot_loc) == [k \in 1..Len(route) |-> route[k].xy] \o <<depot_loc.xy>>

\* the geometries kept: those of the routes whose call answered with a route
RECURSIVE GeometriesFrom(_, _, _, _)
GeometriesFrom(routes, k, answered, depot_loc) ==
  IF k > Len(routes) THEN <<>>
  ELSE (IF answered[k] THEN <<RouteCoords(routes[k], depot_loc)>> ELSE <<>>)
       \o GeometriesFrom(routes, k + 1, answered, depot_loc)

\* GeneticAlgorithm.run, lines 144-155: one get_route call per sub-route of
\* the best individual (get_route answers None when the service fails), and
\* the return to the caller
FetchGeometries ==
  /\ pc = "ga_geometries"
  /\ \E answered \in [1..Len(best_chromosome.routes) -> BOOLEAN] :
       best_chromosome' =
         [best_chromosome EXCEPT
            !.geometries = GeometriesFrom(best_chromosome.routes, 1, answered,
                                          Head(ga.locations))]
  /\ route_calls' = route_calls + Len(best_chromosome.routes)
  /\ ga_returns' = Append(ga_returns, vehicles[i])
  /\ pc' = "persist"
  /\ UNCHANGED <<dbVars, fixedVars, backendVars, exc, retval, loadVars, loopVars,
                 ga, events, scans, ga_runs, matrix_calls, matrix_args,
                 matrix_replies, poll>>

\* lines 75-93: the Task row, its TaskStop rows, and the id kept for the result
PersistTask ==
  /\ pc = "persist"
  /\ IF "ASSIGNED" \notin TaskStatus
     THEN /\ Raise(NoAssigned)
          /\ UNCHANGED <<tasks, task_stops, created_tasks_ids, i>>
     ELSE LET db_task == [id |-> Len(tasks) + 1,
                          depot_id |-> depot,
                          vehicle_id |-> vehicles[i],
                          status |-> "ASSIGNED",
                          total_distance |-> best_chromosome.total_distance,
                          path_geometries |-> best_chromosome.geometries]
          IN /\ tasks' = Append(tasks, db_task)
             /\ task_stops' = task_stops \o StopsOf(db_task.id, best_chromosome.routes, depot)
             /\ created_tasks_ids' = Append(created_tasks_ids, db_task.id)
             /\ i' = i + 1
             /\ pc' = "loop"
             /\ exc' = exc
  /\ UNCHANGED <<db_vehicles, fixedVars, backendVars, retval, loadVars,
                 order_clusters, gaVars, events, runVars, oracleVars, poll>>

\* line 95 without its filter: every row of the table
FinalTasks_All(table, ids) == table

\* line 95: db.query(Task).filter(Task.id.in_(created_tasks_ids)).all()
FinalTasks(table, ids) == SelectSeq(table, LAMBDA t : t.id \in Range(ids))

\* lines 95-96: the tasks created by this job, and the return value
Finalize ==
  /\ pc = "finalize"
  /\ LET final_tasks == FinalTasks(tasks, created_tasks_ids)
     IN retval' = CompleteValue([total_tasks_created |-> Len(final_tasks),
                                 tasks |-> final_tasks])
  /\ pc' = "returned"
  /\ UNCHANGED <<dbVars, fixedVars, backendVars, exc, loadVars, loopVars, gaVars,
                 events, runVars, oracleVars, poll>>

\* lines 98-100: the except clause records FAILURE itself and then returns
\* a value as if the task had gone well
HandleException ==
  /\ pc = "except"
  /\ state' = "FAILURE"
  /\ info' = FailureMeta(exc)
  /\ events' = Append(events, "FAILURE")
  /\ retval' = FailureValue(exc)
  /\ pc' = "returned"
  /\ UNCHANGED <<dbVars, fixedVars, exc, loadVars, loopVars, gaVars, runVars,
                 oracleVars, poll>>

\* the job runner (@celery.task): a task function that returns has
\* succeeded, and its return value is stored as the job's result
StoreResult ==
  /\ pc = "returned"
  /\ state' = "SUCCESS"
  /\ info' = retval
  /\ pc' = "done"
  /\ UNCHANGED <<dbVars, fixedVars, exc, retval, loadVars, loopVars, gaVars,
                 events, runVars, oracleVars, poll>>

(***************************************************************************)
(* main.py: get_dispatch_status                                            *)
(***************************************************************************)
\* the response for what the result backend holds; building the response
\* raises when result is not a DispatchResult (PROGRESS passes the progress
\* text) and when the stored value has no 'result' key
get_dispatch_status ==
  CASE state = "PENDING" -> Response("Pending", NoResult, "")
    [] state = "PROGRESS" -> PollError("ValidationError")
    [] state = "SUCCESS" ->
         IF "result" \in info.keys
         THEN Response("Success", info.result, "")
         ELSE PollError("KeyError")
    [] state = "FAILURE" -> Response("Failed", NoResult, info.exc_message)
    [] OTHER -> Response(state, NoResult, "")

Poll ==
  /\ poll' = get_dispatch_status
  /\ UNCHANGED <<dbVars, fixedVars, backendVars, pc, exc, retval, loadVars,
                 loopVars, gaVars, events, runVars, oracleVars>>

Next ==
  \/ StartFetching
  \/ FetchData
  \/ StartClustering
  \/ ClusterOrders
  \/ StartAssigning
  \/ AssignVehicle
  \/ PrecomputeDistanceMatrix
  \/ Evolve
  \/ FetchGeometries
  \/ PersistTask
  \/ Finalize
  \/ HandleException
  \/ StoreResult
  \/ Poll

Spec == Init /\ [][Next]_vars

(***************************************************************************)
(* main.py: POST /api/tasks/optimize_cvrp (create_and_optimize_cvrp_task), *)
(* the synchronous solve of one vehicle with the GeneticAlgorithm of       *)
(* main.py, which measures straight lines instead of asking the oracle.    *)
(***************************************************************************)
Abs(a) == IF a < 0 THEN -a ELSE a

\* calculate_distance, for places on a line
calculate_distance(loc1, loc2) == Abs(loc1.xy - loc2.xy)

RECURSIVE StraightLegsFrom(_, _)
StraightLegsFrom(route, k) ==
  IF k >= Len(route) THEN 0
  ELSE calculate_distance(route[k], route[k + 1]) + StraightLegsFrom(route, k + 1)

RECURSIVE StraightDistanceFrom(_, _, _)
StraightDistanceFrom(routes, k, depot_loc) ==
  IF k > Len(routes) THEN 0
  ELSE StraightLegsFrom(routes[k], 1)
       + calculate_distance(routes[k][Len(routes[k])], depot_loc)
       + StraightDistanceFrom(routes, k + 1, depot_loc)

\* main.py, GeneticAlgorithm.calculate_fitness for one chromosome
StraightEvaluate(genes, depot_loc, capacity) ==
  LET routes == DecodeRoutes(genes, depot_loc, capacity)
      dist == StraightDistanceFrom(routes, 1, depot_loc)
      viol == ViolationFrom(routes, 1, capacity)
  IN [genes |-> genes,
      fitness |-> dist + viol * CAPACITY_PENALTY,
      routes |-> routes,
      geometries |-> <<>>,
      total_distance |-> dist,
      capacity_violation |-> viol]

\* raise HTTPException(status_code, detail)
HTTPException(status_code, detail) == [type |-> status_code, message |-> detail]

\* the request body (schemas.TaskCreate); vehicle_id 0 stands for None
TaskCreates ==
  [vehicle_id : RequestVehicleIds \cup {0},
   depot_id : RequestDepotIds,
   order_ids : SUBSET RequestOrderIds]

InitCvrp ==
  /\ db_vehicles \in [VehicleIds -> Capacities]
  /\ tasks = <<>>
  /\ task_stops = <<>>
  /\ request \in TaskCreates
  /\ state = "PENDING"
  /\ info = NoInfo
  /\ pc = "cvrp_start"
  /\ exc = NoExc
  /\ retval = NoInfo
  /\ vehicles = <<>>
  /\ orders = <<>>
  /\ depot = 0
  /\ order_clusters = <<>>
  /\ created_tasks_ids = <<>>
  /\ i = 1
  /\ ga = NoGA
  /\ best_chromosome = NoChromosome
  /\ events = <<>>
  /\ scans = <<>>
  /\ ga_runs = <<>>
  /\ ga_returns = <<>>
  /\ matrix_calls = 0
  /\ route_calls = 0
  /\ matrix_args = <<>>
  /\ matrix_replies = <<>>
  /\ NoPopulation
  /\ Alone
  /\ poll = NoPoll

\* the exception leaves the handler: the framework answers with the error
Abort(e) ==
  /\ pc' = "cvrp_done"
  /\ exc' = e

\* lines 722-758: the checks of the vehicle, the depot and the orders, the
\* locations and the GeneticAlgorithm
CvrpValidate ==
  /\ pc = "cvrp_start"
  /\ LET os == OrderQuery(request.order_ids)
         d == DepotQuery(request.depot_id)
     IN IF request.vehicle_id = 0
        THEN Abort(HTTPException(400, "Vehicle ID is required for CVRP."))
             /\ UNCHANGED <<loadVars, ga>>
        ELSE IF request.vehicle_id \notin DOMAIN db_vehicles
        THEN Abort(HTTPException(404, "Vehicle not found"))
             /\ UNCHANGED <<loadVars, ga>>
        ELSE IF d = 0
        THEN Abort(HTTPException(404, "Depot not found"))
             /\ UNCHANGED <<loadVars, ga>>
        ELSE IF request.order_ids = {}
        THEN Abort(HTTPException(400, "Order IDs are required for CVRP."))
             /\ UNCHANGED <<loadVars, ga>>
        ELSE IF Len(os) # Cardinality(request.order_ids)
        THEN Abort(HTTPException(404, "One or more orders not found"))
             /\ UNCHANGED <<loadVars, ga>>
        ELSE /\ vehicles' = <<request.vehicle_id>>
             /\ orders' = os
             /\ depot' = d
             /\ ga' = [locations |-> BuildLocations(d, os),
                       vehicle_capacity |-> db_vehicles[request.vehicle_id],
                       distance_matrix |-> NoGA.distance_matrix]
             /\ pc' = "cvrp_solve"
             /\ exc' = exc
  /\ UNCHANGED <<dbVars, fixedVars, backendVars, retval, loopVars,
                 best_chromosome, events, runVars, oracleVars, poll>>

\* line 760, main.py GeneticAlgorithm.run: the random draws are choices, as
\* in Evolve
CvrpSolve ==
  /\ pc = "cvrp_solve"
  /\ ga_runs' = Append(ga_runs, vehicles[1])
  /\ LET depot_loc == Head(ga.locations)
         customers == Tail(ga.locations)
         size == Len(customers)
     IN \E crossed \in BOOLEAN :
          IF crossed /\ CutPoints(size) = {}
          THEN Abort(SampleError) /\ UNCHANGED <<best_chromosome, ga_returns>>
          ELSE \E short \in {crossed /\ HasEqualLocations(customers),
                              crossed /\ HasEqualLocations(customers) /\ size = 2} :
                 IF short
                 THEN Abort(IndexError) /\ UNCHANGED <<best_chromosome, ga_returns>>
                 ELSE \E order \in Orderings(1..size) :
                        /\ best_chromosome' =
                             StraightEvaluate([k \in 1..size |-> customers[order[k]]],
                                              depot_loc, ga.vehicle_capacity)
                        /\ ga_returns' = Append(ga_returns, vehicles[1])
                        /\ pc' = "cvrp_persist"
                        /\ exc' = exc
  /\ UNCHANGED <<dbVars, fixedVars, backendVars, retval, loadVars, loopVars, ga,
                 events, scans, oracleVars, poll>>

\* lines 763-788: the Task row with status COMPLETED, its TaskStop rows, and
\* the Task as the response
CvrpPersist ==
  /\ pc = "cvrp_persist"
  /\ LET db_task == [id |-> Len(tasks) + 1,
                     depot_id |-> request.depot_id,
                     vehicle_id |-> request.vehicle_id,
                     status |-> "COMPLETED",
                     total_distance |-> best_chromosome.total_distance,
                     path_geometries |-> <<>>]
     IN /\ tasks' = Append(tasks, db_task)
        /\ task_stops' = task_stops \o StopsOf(db_task.id, best_chromosome.routes, depot)
        /\ retval' = db_task
  /\ pc' = "cvrp_done"
  /\ UNCHANGED <<db_vehicles, fixedVars, backendVars, exc, loadVars, loopVars,
                 gaVars, events, runVars, oracleVars, poll>>

NextCvrp ==
  \/ CvrpValidate
  \/ CvrpSolve
  \/ CvrpPersist

SpecCvrp == InitCvrp /\ [][NextCvrp]_vars

(***************************************************************************)
(* GeneticAlgorithm.run entered with a cluster of any size: the matrix     *)
(* step on its own.  The caller stands at line 73 with the instance built. *)
(***************************************************************************)
\* the depot and n customers at n places
ManyLocations(n) ==
  <<Location(1, DepotXY(1), 0)>> \o [c \in 1..n |-> Location(c, CustomerXY(c), 1)]

InitMatrix ==
  /\ db_vehicles \in [VehicleIds -> Capacities]
  /\ tasks = <<>>
  /\ task_stops = <<>>
  /\ request = [vehicle_ids |-> {1}, order_ids |-> {}, depot_id |-> 1]
  /\ state = "PROGRESS"
  /\ info = ProgressMeta("Assigning clusters and optimizing routes...")
  /\ pc = "ga_run"
  /\ exc = NoExc
  /\ retval = NoInfo
  /\ vehicles = <<1>>
  /\ orders = <<>>
  /\ depot = 1
  /\ order_clusters = <<>>
  /\ created_tasks_ids = <<>>
  /\ i = 1
  /\ \E n \in 0..MaxCustomers :
       ga = [locations |-> ManyLocations(n),
             vehicle_capacity |-> db_vehicles[1],
             distance_matrix |-> NoGA.distance_matrix]
  /\ best_chromosome = NoChromosome
  /\ events = <<>>
  /\ scans = <<>>
  /\ ga_runs = <<>>
  /\ ga_returns = <<>>
  /\ matrix_calls = 0
  /\ route_calls = 0
  /\ matrix_args = <<>>
  /\ matrix_replies = <<>>
  /\ NoPopulation
  /\ Alone
  /\ poll = NoPoll

NextMatrix == PrecomputeDistanceMatrix

SpecMatrix == InitMatrix /\ [][NextMatrix]_vars

(***************************************************************************)
(* GeneticAlgorithm on its own: an instance as its constructor leaves it,  *)
(* and its methods as steps.                                               *)
(***************************************************************************)
\* the demands an order may carry (those of DemandOf, and none)
Demands == {0, 1, 6}

\* a depot and one customer per demand of the list, all ids distinct
SolverLocations(demands) ==
  <<Location(1, DepotXY(1), 0)>>
  \o [k \in 1..Len(demands) |-> Location(k + 1, CustomerXY(k + 1), demands[k])]

\* the matrix of an instance: {} as __init__ leaves it, or as
\* _precompute_distance_matrix fills it from a usable reply
MatrixStates(locs) ==
  {NoGA.distance_matrix}
  \cup {DistanceMatrix(reply, locs) : reply \in {r \in MatrixReplies : MatrixUsable(r)}}

\* calculate_fitness: every chromosome of the population, evaluated
Evaluated(pop) ==
  [k \in 1..Len(pop) |->
     Evaluate(pop[k].genes, Head(ga.locations), ga.vehicle_capacity, ga.distance_matrix)]

\* calculate_fitness called on an instance holding one chromosome, fresh
\* from its constructor or evaluated by an earlier call
InitFitness ==
  /\ \E capacity \in Capacities, n \in 0..FitnessCustomers :
       \E demands \in [1..n -> Demands], order \in Orderings(1..n) :
         LET locs == SolverLocations(demands)
         IN /\ db_vehicles = [v \in VehicleIds |-> capacity]
            /\ \E dm \in MatrixStates(locs) :
                 ga = [locations |-> locs, vehicle_capacity |-> capacity,
                       distance_matrix |-> dm]
            /\ population \in
                 {<<Chromosome([k \in 1..n |-> locs[order[k] + 1]])>>,
                  <<Evaluate([k \in 1..n |-> locs[order[k] + 1]], Head(locs),
                             capacity, ga.distance_matrix)>>}
  /\ tasks = <<>>
  /\ task_stops = <<>>
  /\ request = [vehicle_ids |-> {}, order_ids |-> {}, depot_id |-> 1]
  /\ state = "PENDING"
  /\ info = NoInfo
  /\ pc = "fitness"
  /\ exc = NoExc
  /\ retval = NoInfo
  /\ vehicles = <<>>
  /\ orders = <<>>
  /\ depot = 1
  /\ order_clusters = <<>>
  /\ created_tasks_ids = <<>>
  /\ i = 1
  /\ best_chromosome = NoChromosome
  /\ events = <<>>
  /\ scans = <<>>
  /\ ga_runs = <<>>
  /\ ga_returns = <<>>
  /\ matrix_calls = 0
  /\ route_calls = 0
  /\ matrix_args = <<>>
  /\ matrix_replies = <<>>
  /\ new_population = <<>>
  /\ offspring_population = <<>>
  /\ generation = 0
  /\ best_fitness_so_far = Inf
  /\ generations_without_improvement = 0
  /\ fitness_history = <<>>
  /\ cut = <<>>
  /\ Alone
  /\ poll = NoPoll

\* calculate_fitness, lines 157-207; no statement of it raises
CalculateFitness ==
  /\ pc = "fitness"
  /\ population' = Evaluated(population)
  /\ pc' = "fitness_done"
  /\ UNCHANGED <<dbVars, request, backendVars, exc, retval, loadVars, loopVars,
                 gaVars, events, runVars, oracleVars, new_population,
                 offspring_population, generation, best_fitness_so_far,
                 generations_without_improvement, fitness_history, cut,
                 other, running, poll>>

NextFitness == CalculateFitness

SpecFitness == InitFitness /\ [][NextFitness]_vars

(***************************************************************************)
(* GeneticAlgorithm.run with its population: one instance, from the call   *)
(* of run() to its return.                                                 *)
(***************************************************************************)
\* ordered_crossover, one child: the slice [start, end) of pa kept in place,
\* the other positions filled left to right from `rest`, the genes of pb
\* that are not in the slice
ChildOf_NoFilter(pa, pb, start, end) ==
  [k \in 1..Len(pa) |->
     IF k \in (start + 1)..end THEN pa[k]
     ELSE IF k <= start THEN pb[k] ELSE pb[k - (end - start)]]

\* the textbook OX1: the fill starts behind the slice and wraps around
ChildOf_Wrapped(pa, pb, start, end) ==
  LET kept == {pa[k] : k \in (start + 1)..end}
      rest == SelectSeq(pb, LAMBDA gene : gene \notin kept)
  IN [k \in 1..Len(pa) |->
        IF k \in (start + 1)..end THEN pa[k]
        ELSE IF k > end THEN rest[k - end] ELSE rest[Len(pa) - end + k]]

ChildOf(pa, pb, start, end) ==
  LET kept == {pa[k] : k \in (start + 1)..end}
      rest == SelectSeq(pb, LAMBDA gene : gene \notin kept)
  IN [k \in 1..Len(pa) |->
        IF k \in (start + 1)..end THEN pa[k]
        ELSE IF k <= start THEN rest[k] ELSE rest[k - (end - start)]]

\* ordered_crossover: the fill loop asks for more genes than `rest` holds
\* (IndexError)
FillShort(pa, pb, start, end) ==
  LET kept == {pa[k] : k \in (start + 1)..end}
      rest == SelectSeq(pb, LAMBDA gene : gene \notin kept)
  IN Len(rest) < Len(pa) - (end - start)

\* ordered_crossover(parent1, parent2) for the cut points drawn
ordered_crossover(parent1, parent2, start, end) ==
  <<ChildOf(parent1, parent2, start, end), ChildOf(parent2, parent1, start, end)>>

\* mutate: what random.random() and random.sample may draw; <<>> stands
\* for no swap (no mutation drawn, or fewer than two genes)
MutationDraws(size) == {<<>>} \cup CutPoints(size)

\* mutate(genes) for the draw: the two genes swapped
mutate(genes, draw) ==
  IF draw = <<>> THEN genes
  ELSE [genes EXCEPT ![draw[1] + 1] = genes[draw[2] + 1],
                     ![draw[2] + 1] = genes[draw[1] + 1]]

\* min(pop, key=lambda c: c.fitness): the first of the least
FirstMin(pop) ==
  pop[CHOOSE k \in 1..Len(pop) :
        /\ \A m \in 1..Len(pop) : ~Less(pop[m].fitness, pop[k].fitness)
        /\ \A m \in 1..(k - 1) : Less(pop[k].fitness, pop[m].fitness)]

\* selection: the chromosomes a tournament can end with, those that have
\* tournament_size - 1 others none of which is strictly fitter (min keeps
\* the first of the least, and the sample comes in any order)
Winners(pop) ==
  {pop[k] : k \in {w \in 1..Len(pop) :
      Cardinality({m \in 1..Len(pop) : ~Less(pop[m].fitness, pop[w].fitness)})
        >= tournament_size}}

\* GeneticAlgorithm(locations, vehicle_capacity, population_size, ...)
GeneticAlgorithm(locs, capacity, pop_size, gens, patience) ==
  [locations |-> locs, vehicle_capacity |-> capacity,
   distance_matrix |-> NoGA.distance_matrix,
   population_size |-> pop_size, generations |-> gens, patience |-> patience]

\* the caller has built the instance and calls run(): a cluster of unit
\* demands that fits the vehicle (the orchestrator binds no other), the
\* smallest population selection() can sample, any generations and patience
InitGA ==
  /\ \E n \in 0..GaCustomers, gens \in 0..MaxGenerations, patience \in 1..MaxPatience :
       \E capacity \in {c \in Capacities : \A d \in Capacities : d <= c} :
         /\ db_vehicles = [v \in VehicleIds |-> capacity]
         /\ ga = GeneticAlgorithm(SolverLocations([k \in 1..n |-> 1]),
                                  capacity, tournament_size, gens, patience)
  /\ tasks = <<>>
  /\ task_stops = <<>>
  /\ request = [vehicle_ids |-> {1}, order_ids |-> {}, depot_id |-> 1]
  /\ state = "PROGRESS"
  /\ info = ProgressMeta("Assigning clusters and optimizing routes...")
  /\ pc = "ga_run"
  /\ exc = NoExc
  /\ retval = NoInfo
  /\ vehicles = <<1>>
  /\ orders = <<>>
  /\ depot = 1
  /\ order_clusters = <<>>
  /\ created_tasks_ids = <<>>
  /\ i = 1
  /\ best_chromosome = NoChromosome
  /\ events = <<>>
  /\ scans = <<>>
  /\ ga_runs = <<>>
  /\ ga_returns = <<>>
  /\ matrix_calls = 0
  /\ route_calls = 0
  /\ matrix_args = <<>>
  /\ matrix_replies = <<>>
  /\ NoPopulation
  /\ Alone
  /\ poll = NoPoll

\* what the steps of the loop leave alone
aroundLoop ==
  <<dbVars, request, backendVars, retval, loadVars, loopVars, ga, events,
    runVars, oracleVars, cut, other, running, poll>>

\* run, lines 103-110: initialize_population, the first calculate_fitness
\* and the two counters
InitializePopulation ==
  /\ pc = "ga_evolve"
  /\ LET customers == Tail(ga.locations)
         size == Len(customers)
     IN \E shuffled \in [1..ga.population_size -> Orderings(1..size)] :
          population' =
            Evaluated(population
                      \o [c \in 1..ga.population_size |->
                            Chromosome([k \in 1..size |-> customers[shuffled[c][k]]])])
  /\ fitness_history' = <<FirstMin(population').fitness>>
  /\ best_fitness_so_far' = Inf
  /\ generations_without_improvement' = 0
  /\ generation' = 0
  /\ pc' = IF ga.generations > 0 THEN "ga_select" ELSE "ga_best"
  /\ UNCHANGED <<aroundLoop, exc, best_chromosome, new_population,
                 offspring_population>>

\* run, line 114: selection(), one tournament per member of the population;
\* random.sample raises when the population is smaller than a tournament
Selection ==
  /\ pc = "ga_select"
  /\ IF Len(population) < tournament_size
     THEN /\ Raise(SampleError)
          /\ UNCHANGED <<new_population, offspring_population>>
     ELSE /\ new_population' \in [1..ga.population_size -> Winners(population)]
          /\ offspring_population' = <<>>
          /\ pc' = "ga_cross"
          /\ exc' = exc
  /\ UNCHANGED <<aroundLoop, best_chromosome, population, generation,
                 best_fitness_so_far, generations_without_improvement,
                 fitness_history>>

\* crossover_and_mutate, lines 234-253: one pass of its loop, for the pair
\* of parents at i and i + 1 (i counted from 0)
CrossoverPair ==
  /\ pc = "ga_cross"
  /\ LET first == Len(offspring_population)
         p1 == new_population[first + 1]
         p2 == IF first + 1 < Len(new_population) THEN new_population[first + 2] ELSE p1
         size == Len(p1.genes)
     IN \E crossed \in BOOLEAN :
          IF crossed /\ CutPoints(size) = {}
          THEN Raise(SampleError) /\ UNCHANGED offspring_population
          ELSE \E drawn \in (IF crossed THEN CutPoints(size) ELSE {<<0, 0>>}) :
                 IF crossed /\ (FillShort(p1.genes, p2.genes, drawn[1], drawn[2])
                                \/ FillShort(p2.genes, p1.genes, drawn[1], drawn[2]))
                 THEN Raise(IndexError) /\ UNCHANGED offspring_population
                 ELSE LET children == IF crossed
                                      THEN ordered_crossover(p1.genes, p2.genes, drawn[1], drawn[2])
                                      ELSE <<p1.genes, p2.genes>>
                      IN \E draw1 \in MutationDraws(size), draw2 \in MutationDraws(size) :
                           /\ offspring_population' =
                                offspring_population
                                \o <<Chromosome(mutate(children[1], draw1)),
                                      Chromosome(mutate(children[2], draw2))>>
                           /\ pc' = IF first + 2 < ga.population_size
                                    THEN "ga_cross" ELSE "ga_replace"
                           /\ exc' = exc
  /\ UNCHANGED <<aroundLoop, best_chromosome, population, new_population,
                 generation, best_fitness_so_far, generations_without_improvement,
                 fitness_history>>

\* run, lines 120-121 without the elite: the offspring alone
NextPopulation_NoElite(pop, offspring, size) ==
  SubSeq(offspring, 1, Min(Len(offspring), size))

\* run, lines 120-121: the best of the last generation, then the first
\* population_size - 1 offspring
NextPopulation(pop, offspring, size) ==
  LET best_of_last_gen == FirstMin(pop)
  IN <<best_of_last_gen>> \o SubSeq(offspring, 1, Min(Len(offspring), size - 1))

\* run, lines 119-139: the new population, its fitness, and the early
\* stop; the two lists of the pass are not read again and are let go
Replace ==
  /\ pc = "ga_replace"
  /\ LET next_population ==
           Evaluated(NextPopulation(population, offspring_population,
                                    ga.population_size))
         current_best_chromosome == next_population[1]
         improved == Less(current_best_chromosome.fitness, best_fitness_so_far)
         stalled == IF improved THEN 0 ELSE generations_without_improvement + 1
     IN /\ population' = next_population
        /\ fitness_history' = Append(fitness_history, FirstMin(next_population).fitness)
        /\ best_fitness_so_far' =
             IF improved THEN current_best_chromosome.fitness ELSE best_fitness_so_far
        /\ generations_without_improvement' = stalled
        /\ generation' = generation + 1
        /\ pc' = IF stalled >= ga.patience \/ generation + 1 >= ga.generations
                 THEN "ga_best" ELSE "ga_select"
  /\ new_population' = <<>>
  /\ offspring_population' = <<>>
  /\ UNCHANGED <<aroundLoop, exc, best_chromosome>>

\* run, line 142: the best of the final population
PickBest ==
  /\ pc = "ga_best"
  /\ best_chromosome' = FirstMin(population)
  /\ pc' = "ga_geometries"
  /\ UNCHANGED <<aroundLoop, exc, loopStateVars>>

NextGA ==
  \/ PrecomputeDistanceMatrix
  \/ InitializePopulation
  \/ Selection
  \/ CrossoverPair
  \/ Replace
  \/ PickBest
  \/ FetchGeometries

SpecGA == InitGA /\ [][NextGA]_vars

(***************************************************************************)
(* GeneticAlgorithm.run as run_dispatch_task calls it: the instance is     *)
(* built from a cluster the assignment scan has bound to the vehicle.      *)
(***************************************************************************)
\* the orders of a set, in the order the orders query lists them
RECURSIVE OrdersOf(_)
OrdersOf(S) ==
  IF S = {} THEN <<>>
  ELSE LET first == CHOOSE o \in S : \A p \in S : o <= p
       IN <<first>> \o OrdersOf(S \ {first})

\* the clusters the scan can bind to a vehicle of the given capacity
BindableClusters(capacity) ==
  {cluster \in {OrdersOf(S) : S \in SUBSET OrderIds} : Fits(cluster, capacity)}

\* lines 62-73: the scan has found a cluster for the vehicle, the instance
\* is built and run() is called; the run is followed through its initial
\* population and one generation
InitBoundGA ==
  /\ \E capacity \in Capacities, gens \in {1} :
       \E cluster \in BindableClusters(capacity) :
         /\ db_vehicles = [v \in VehicleIds |-> capacity]
         /\ request = [vehicle_ids |-> {1}, order_ids |-> Range(cluster), depot_id |-> 1]
         /\ orders = cluster
         /\ ga = GeneticAlgorithm(BuildLocations(1, cluster), capacity,
                                  tournament_size, gens, MaxPatience)
  /\ tasks = <<>>
  /\ task_stops = <<>>
  /\ state = "PROGRESS"
  /\ info = ProgressMeta("Assigning clusters and optimizing routes...")
  /\ pc = "ga_run"
  /\ exc = NoExc
  /\ retval = NoInfo
  /\ vehicles = <<1>>
  /\ depot = 1
  /\ order_clusters = <<>>
  /\ created_tasks_ids = <<>>
  /\ i = 1
  /\ best_chromosome = NoChromosome
  /\ events = <<>>
  /\ scans = <<>>
  /\ ga_runs = <<>>
  /\ ga_returns = <<>>
  /\ matrix_calls = 0
  /\ route_calls = 0
  /\ matrix_args = <<>>
  /\ matrix_replies = <<>>
  /\ NoPopulation
  /\ Alone
  /\ poll = NoPoll

SpecBoundGA == InitBoundGA /\ [][NextGA]_vars

(***************************************************************************)
(* ordered_crossover on its own: two parents over the same customers, the  *)
(* call, and its two children.                                             *)
(***************************************************************************)
\* the call ordered_crossover(parent1, parent2) is about to be made; the
\* parents are new_population[1].genes and new_population[2].genes
InitCrossover ==
  /\ \E n \in 1..CrossoverGenes :
       LET locs == SolverLocations([k \in 1..n |-> 1])
       IN /\ \E capacity \in {c \in Capacities : \A d \in Capacities : d <= c} :
               /\ db_vehicles = [v \in VehicleIds |-> capacity]
               /\ ga = GeneticAlgorithm(locs, capacity, tournament_size, 1, 1)
          /\ \E order1 \in Orderings(1..n), order2 \in Orderings(1..n) :
               new_population =
                 <<Chromosome([k \in 1..n |-> locs[order1[k] + 1]]),
                   Chromosome([k \in 1..n |-> locs[order2[k] + 1]])>>
  /\ tasks = <<>>
  /\ task_stops = <<>>
  /\ request = [vehicle_ids |-> {1}, order_ids |-> {}, depot_id |-> 1]
  /\ state = "PROGRESS"
  /\ info = ProgressMeta("Assigning clusters and optimizing routes...")
  /\ pc = "crossover"
  /\ exc = NoExc
  /\ retval = NoInfo
  /\ vehicles = <<1>>
  /\ orders = <<>>
  /\ depot = 1
  /\ order_clusters = <<>>
  /\ created_tasks_ids = <<>>
  /\ i = 1
  /\ best_chromosome = NoChromosome
  /\ events = <<>>
  /\ scans = <<>>
  /\ ga_runs = <<>>
  /\ ga_returns = <<>>
  /\ matrix_calls = 0
  /\ route_calls = 0
  /\ matrix_args = <<>>
  /\ matrix_replies = <<>>
  /\ population = <<>>
  /\ offspring_population = <<>>
  /\ generation = 0
  /\ best_fitness_so_far = Inf
  /\ generations_without_improvement = 0
  /\ fitness_history = <<>>
  /\ cut = <<>>
  /\ Alone
  /\ poll = NoPoll

\* ordered_crossover, lines 259-283: the cut points, the two children; the
\* parents' lists are read, never assigned
OrderedCrossover ==
  /\ pc = "crossover"
  /\ LET parent1 == new_population[1].genes
         parent2 == new_population[2].genes
         size == Len(parent1)
     IN IF CutPoints(size) = {}
        THEN /\ Raise(SampleError)
             /\ UNCHANGED <<cut, offspring_population>>
        ELSE \E drawn \in CutPoints(size) :
               LET children == ordered_crossover(parent1, parent2, drawn[1], drawn[2])
               IN /\ cut' = drawn
                  /\ offspring_population' =
                       <<Chromosome(children[1]), Chromosome(children[2])>>
                  /\ pc' = "crossover_done"
                  /\ exc' = exc
  /\ UNCHANGED <<dbVars, request, backendVars, retval, loadVars, loopVars,
                 gaVars, events, runVars, oracleVars, population, new_population,
                 generation, best_fitness_so_far, generations_without_improvement,
                 fitness_history, other, running, poll>>

NextCrossover == OrderedCrossover

SpecCrossover == InitCrossover /\ [][NextCrossover]_vars

(***************************************************************************)
(* Two dispatch jobs on two workers, sharing the database.  Each worker    *)
(* runs run_dispatch_task with its own locals and its own entry in the     *)
(* result backend; the steps of the two interleave.  The variables hold    *)
(* the job that takes the next step, `other` holds the other one.          *)
(***************************************************************************)
\* the backend entry and the locals of the job the variables belong to
Context ==
  [request |-> request, state |-> state, info |-> info, pc |-> pc, exc |-> exc,
   retval |-> retval, vehicles |-> vehicles, orders |-> orders, depot |-> depot,
   order_clusters |-> order_clusters, created_tasks_ids |-> created_tasks_ids,
   i |-> i, ga |-> ga, best_chromosome |-> best_chromosome, events |-> events,
   scans |-> scans, ga_runs |-> ga_runs, ga_returns |-> ga_returns,
   matrix_calls |-> matrix_calls, route_calls |-> route_calls,
   matrix_args |-> matrix_args, matrix_replies |-> matrix_replies]

\* a job as run_dispatcher_async leaves it: submitted, not started
Submitted(req) ==
  [request |-> req, state |-> "PENDING", info |-> NoInfo, pc |-> "start",
   exc |-> NoExc, retval |-> NoInfo, vehicles |-> <<>>, orders |-> <<>>,
   depot |-> 0, order_clusters |-> <<>>, created_tasks_ids |-> <<>>, i |-> 1,
   ga |-> NoGA, best_chromosome |-> NoChromosome, events |-> <<>>,
   scans |-> <<>>, ga_runs |-> <<>>, ga_returns |-> <<>>, matrix_calls |-> 0,
   route_calls |-> 0, matrix_args |-> <<>>, matrix_replies |-> <<>>]

\* the requests of the two jobs: one vehicle and one order each
TwoJobRequests ==
  {[vehicle_ids |-> {v}, order_ids |-> {o}, depot_id |-> d] :
     v \in {1, 2}, o \in {2, 3}, d \in DepotIds}

\* a Task that POST /api/tasks/optimize_cvrp persisted before the two jobs:
\* vehicle 1, depot 1, order 3
EarlierSolve ==
  LET locs == BuildLocations(1, <<3>>)
  IN StraightEvaluate(Tail(locs), Head(locs), db_vehicles[1])

EarlierTask ==
  [id |-> 1, depot_id |-> 1, vehicle_id |-> 1, status |-> "COMPLETED",
   total_distance |-> EarlierSolve.total_distance, path_geometries |-> <<>>]

InitTwoJobs ==
  /\ db_vehicles \in [VehicleIds -> Capacities]
  /\ tasks = <<EarlierTask>>
  /\ task_stops = StopsOf(EarlierTask.id, EarlierSolve.routes, EarlierTask.depot_id)
  /\ \E mine \in TwoJobRequests, theirs \in TwoJobRequests :
       /\ request = mine
       /\ other = Submitted(theirs)
  /\ running = 1
  /\ state = "PENDING"
  /\ info = NoInfo
  /\ pc = "start"
  /\ exc = NoExc
  /\ retval = NoInfo
  /\ vehicles = <<>>
  /\ orders = <<>>
  /\ depot = 0
  /\ order_clusters = <<>>
  /\ created_tasks_ids = <<>>
  /\ i = 1
  /\ ga = NoGA
  /\ best_chromosome = NoChromosome
  /\ events = <<>>
  /\ scans = <<>>
  /\ ga_runs = <<>>
  /\ ga_returns = <<>>
  /\ matrix_calls = 0
  /\ route_calls = 0
  /\ matrix_args = <<>>
  /\ matrix_replies = <<>>
  /\ NoPopulation
  /\ poll = NoPoll

\* the next step is the other worker's: the variables take the other job,
\* `other` takes this one; the database is the same for both
Switch ==
  /\ other' = Context
  /\ running' = 3 - running
  /\ request' = other.request
  /\ state' = other.state
  /\ info' = other.info
  /\ pc' = other.pc
  /\ exc' = other.exc
  /\ retval' = other.retval
  /\ vehicles' = other.vehicles
  /\ orders' = other.orders
  /\ depot' = other.depot
  /\ order_clusters' = other.order_clusters
  /\ created_tasks_ids' = other.created_tasks_ids
  /\ i' = other.i
  /\ ga' = other.ga
  /\ best_chromosome' = other.best_chromosome
  /\ events' = other.events
  /\ scans' = other.scans
  /\ ga_runs' = other.ga_runs
  /\ ga_returns' = other.ga_returns
  /\ matrix_calls' = other.matrix_calls
  /\ route_calls' = other.route_calls
  /\ matrix_args' = other.matrix_args
  /\ matrix_replies' = other.matrix_replies
  /\ UNCHANGED <<dbVars, loopStateVars, cut, poll>>

NextTwoJobs ==
  \/ StartFetching
  \/ FetchData
  \/ StartClustering
  \/ ClusterOrders
  \/ StartAssigning
  \/ AssignVehicle
  \/ PrecomputeDistanceMatrix
  \/ Evolve
  \/ FetchGeometries
  \/ PersistTask
  \/ Finalize
  \/ HandleException
  \/ StoreResult
  \/ Switch

SpecTwoJobs == InitTwoJobs /\ [][NextTwoJobs]_vars

(***************************************************************************)
(* Properties.                                                             *)
(***************************************************************************)
Finished == pc = "done"

\* the task body has left through its except clause
JobFailed == exc # NoExc

\* the scans that bound a cluster to their vehicle
BoundScans == {k \in 1..Len(scans) : scans[k].best_cluster_idx # -1}

BoundCluster(k) == scans[k].clusters[scans[k].best_cluster_idx]

RECURSIVE DemandOfOrders(_)
DemandOfOrders(c) == IF c = <<>> THEN 0 ELSE DemandOf(Head(c)) + DemandOfOrders(Tail(c))

\* the vehicles of the scans that bound a cluster, in scan order
RECURSIVE BoundVehiclesFrom(_)
BoundVehiclesFrom(k) ==
  IF k > Len(scans) THEN <<>>
  ELSE (IF scans[k].best_cluster_idx # -1 THEN <<scans[k].vehicle>> ELSE <<>>)
       \o BoundVehiclesFrom(k + 1)

AllowedTransitions ==
  {<<"PENDING", "PROGRESS">>, <<"PROGRESS", "SUCCESS">>,
   <<"PENDING", "FAILURE">>, <<"PROGRESS", "FAILURE">>}

\* C1: the job state moves only along PENDING -> PROGRESS -> SUCCESS or
\* ... -> FAILURE, and once it is SUCCESS or FAILURE it never changes again,
\* also when the task body catches an exception, records FAILURE and returns.
C1_TerminalStatesSticky ==
  [][state' # state =>
       /\ state \notin {"SUCCESS", "FAILURE"}
       /\ <<state, state'>> \in AllowedTransitions]_vars

\* C2: when the job failed, every poll made after the job has finished
\* answers status = Failed with the failure message as error; it neither
\* errors nor reports Success.
C2_FailedJobPollsFailed ==
  (poll.finished /\ JobFailed) =>
     (poll.status = "Failed" /\ poll.error = exc.message)

\* the tasks persisted for vehicle v as the claim describes them
AssignedTasksOf(v) ==
  {k \in 1..Len(tasks) :
     /\ tasks[k].vehicle_id = v
     /\ tasks[k].status = "ASSIGNED"
     /\ tasks[k].depot_id = depot}

\* C3: for every (vehicle, cluster) pair whose GA run returned a best
\* chromosome, exactly one Task is persisted with status ASSIGNED, the
\* vehicle's id, the depot id and the returned total_distance and
\* geometries; and no step changes a Task that is already persisted.
C3_OneAssignedTaskPerSolve ==
  /\ [](\A k \in 1..Len(ga_returns) :
          \/ (pc = "persist" /\ k = Len(ga_returns))
          \/ Cardinality(AssignedTasksOf(ga_returns[k])) = 1)
  /\ []((pc = "loop" /\ ga_returns # <<>>) =>
          /\ tasks # <<>>
          /\ Last(tasks).total_distance = best_chromosome.total_distance
          /\ Last(tasks).path_geometries = best_chromosome.geometries)
  /\ [][\A k \in 1..Len(tasks) : Len(tasks') >= k /\ tasks'[k] = tasks[k]]_vars

\* the request names a vehicle or an order that no row of the table has
NamesUnknownId ==
  \/ ~(request.vehicle_ids \subseteq VehicleIds)
  \/ ~(request.order_ids \subseteq OrderIds)

\* C4: the job fails with the invalid-input error and persists no Task
\* whenever the loaded vehicle set is empty, the loaded order set is empty,
\* the depot id is unknown, or a requested vehicle or order id does not
\* exist (even when other requested ids do exist).
C4_UnknownIdIsInvalidInput ==
  (Finished /\ (vehicles = <<>> \/ orders = <<>> \/ depot = 0 \/ NamesUnknownId)) =>
     (exc = InvalidData /\ retval = FailureValue(InvalidData) /\ tasks = <<>>)

\* K = min(len(vehicles), len(orders)) of the loaded sets
LoadedK == IF Len(vehicles) <= Len(orders) THEN Len(vehicles) ELSE Len(orders)

\* C5 as stated: when K = 0 (and the depot is known) the job skips
\* clustering, creates 0 Tasks and ends in SUCCESS with
\* total_tasks_created = 0.
C5_ZeroClustersSucceeds ==
  (Finished /\ LoadedK = 0 /\ depot # 0) =>
     /\ tasks = <<>>
     /\ state = "SUCCESS"
     /\ info = CompleteValue(NoResult)

\* C5 as amended: when K = 0 the job skips clustering and creates 0 Tasks,
\* but it never reaches the K == 0 return: the emptiness check of the
\* loaded sets raises the invalid-data error first, the except clause
\* records FAILURE with that message and the task returns
\* {status: FAILURE, error: message}.
C5_ZeroClustersIsInvalidInput ==
  /\ (pc \in {"cluster", "assigning", "loop"} => LoadedK > 0)
  /\ ((pc \in {"returned", "done"} /\ LoadedK = 0) =>
        /\ tasks = <<>>
        /\ order_clusters = <<>>
        /\ events = <<"Fetching data...", "FAILURE">>
        /\ exc = InvalidData
        /\ retval = FailureValue(InvalidData))

C5_Witness == Finished /\ LoadedK = 0 /\ depot # 0

\* one vehicle, one order, a known depot, and the order fits the vehicle
OneOrderOneVehicle ==
  /\ Len(vehicles) = 1
  /\ Len(orders) = 1
  /\ depot # 0
  /\ request.vehicle_ids \subseteq VehicleIds
  /\ request.order_ids \subseteq OrderIds
  /\ DemandOf(orders[1]) <= db_vehicles[vehicles[1]]

\* C6: one vehicle with sufficient capacity and one order: the GA run on
\* the single-customer cluster completes (the routing service answering the
\* matrix call) and the job creates exactly one Task with exactly one stop
\* and total_distance = d(depot, customer) + d(customer, depot).
C6_SingleOrderOneTask ==
  (Finished /\ OneOrderOneVehicle /\ exc # MatrixFailed) =>
     /\ ga_returns = <<vehicles[1]>>
     /\ Len(tasks) = 1
     /\ Len(task_stops) = 1
     /\ tasks[1].total_distance =
          Plus(Lookup(ga.distance_matrix, depot, CustomerOf(orders[1])),
               Lookup(ga.distance_matrix, CustomerOf(orders[1]), depot))

\* one vehicle of capacity 10, two orders of demand 6 each, a known depot
TwoSixesOneTen ==
  /\ Len(vehicles) = 1
  /\ db_vehicles[vehicles[1]] = 10
  /\ Len(orders) = 2
  /\ DemandOf(orders[1]) = 6
  /\ DemandOf(orders[2]) = 6
  /\ depot # 0

\* C7 as stated: the job creates one Task for the vehicle, whose route is
\* decoded into two sub-routes, one per customer, each within capacity.
C7_TwoSubRoutes ==
  (Finished /\ TwoSixesOneTen) =>
     /\ Len(tasks) = 1
     /\ tasks[1].vehicle_id = vehicles[1]
     /\ Len(best_chromosome.routes) = 2
     /\ \A r \in 1..2 : Len(best_chromosome.routes[r]) = 2
                        /\ RouteDemand(best_chromosome.routes[r]) <= 10

\* C7 as amended: K = min(1, 2) = 1, so both orders form one cluster of
\* demand 12 > 10; the vehicle is skipped, no GA run starts, no Task is
\* created and the job returns total_tasks_created = 0.
C7_OversizedClusterSkipped ==
  ((pc \in {"finalize", "returned", "done"} /\ TwoSixesOneTen) =>
      /\ Len(scans) = 1
      /\ scans[1].clusters = <<orders>>
      /\ scans[1].best_cluster_idx = -1
      /\ ga_runs = <<>>
      /\ tasks = <<>>
      /\ ~JobFailed)
  /\ ((Finished /\ TwoSixesOneTen) => info = CompleteValue(NoResult))

C7_Witness == Finished /\ TwoSixesOneTen /\ request.vehicle_ids \subseteq VehicleIds

\* how often cluster c occurs in the list cs
Occurrences(cs, c) == Cardinality({j \in 1..Len(cs) : cs[j] = c})

\* the lists hold the same clusters, each as often
SameClusters(cs, ds) ==
  /\ Len(cs) = Len(ds)
  /\ \A c \in Range(cs) \cup Range(ds) : Occurrences(cs, c) = Occurrences(ds, c)

\* the positions of the non-empty clusters of cs that a vehicle of the capacity can take
FittingIn(cs, capacity) ==
  {j \in 1..Len(cs) : cs[j] # <<>> /\ DemandOfOrders(cs[j]) <= capacity}

InSolve == pc \in {"ga_run", "ga_evolve", "ga_geometries", "persist"}

\* C8: at every point of the assignment loop each vehicle is bound to at
\* most one cluster and each cluster to at most one vehicle (a bound cluster
\* has left the pool), every bound cluster is non-empty with total demand <=
\* the capacity of its vehicle, and the GA is only started for such a pair.
C8_BindingsFeasible ==
  /\ \A a, b \in BoundScans :
       a # b => /\ scans[a].vehicle # scans[b].vehicle
                /\ Range(BoundCluster(a)) \cap Range(BoundCluster(b)) = {}
  /\ \A k \in BoundScans :
       /\ BoundCluster(k) # <<>>
       /\ DemandOfOrders(BoundCluster(k)) <= db_vehicles[scans[k].vehicle]
       /\ \A j \in 1..Len(order_clusters) :
            Range(order_clusters[j]) \cap Range(BoundCluster(k)) = {}
  /\ Len(ga_runs) <= Len(BoundVehiclesFrom(1))
  /\ \A k \in 1..Len(ga_runs) : ga_runs[k] = BoundVehiclesFrom(1)[k]
  /\ InSolve =>
       /\ Len(scans) \in BoundScans
       /\ scans[Len(scans)].vehicle = vehicles[i]
       /\ ga.locations = BuildLocations(depot, BoundCluster(Len(scans)))
       /\ ga.vehicle_capacity = db_vehicles[vehicles[i]]

C8_Witness ==
  /\ pc = "ga_evolve"
  /\ BoundScans # {}
  /\ Len(BoundCluster(Len(scans))) >= 2
  /\ AnyCluster(order_clusters)

\* C9: vehicles are processed in order of non-increasing capacity; the
\* cluster a vehicle receives has the maximum total demand among the
\* non-empty clusters of the pool that fit it; a vehicle is skipped (no
\* Task, the pool unchanged) exactly when no non-empty cluster of the pool
\* fits it; and no vehicle is scanned for once no non-empty cluster remains.
C9_LargestFittingCluster ==
  /\ \A k \in 1..(Len(vehicles) - 1) :
       db_vehicles[vehicles[k]] >= db_vehicles[vehicles[k + 1]]
  /\ \A k \in 1..Len(scans) :
       LET scan == scans[k]
           capacity == db_vehicles[scan.vehicle]
           fitting == FittingIn(scan.pool, capacity)
       IN /\ scan.vehicle = vehicles[k]
          /\ \E j \in 1..Len(scan.pool) : scan.pool[j] # <<>>
          /\ k > 1 => scan.pool = scans[k - 1].remaining
          /\ k = Len(scans) /\ ~InSolve /\ pc # "except" => order_clusters = scan.remaining
          /\ (scan.best_cluster_idx = -1) <=> (fitting = {})
          /\ scan.best_cluster_idx = -1 =>
               /\ SameClusters(scan.remaining, scan.pool)
               /\ \A t \in 1..Len(tasks) : tasks[t].vehicle_id # scan.vehicle
          /\ scan.best_cluster_idx # -1 =>
               /\ BoundCluster(k) # <<>>
               /\ DemandOfOrders(BoundCluster(k)) <= capacity
               /\ \A j \in fitting :
                    DemandOfOrders(BoundCluster(k)) >= DemandOfOrders(scan.pool[j])
               /\ SameClusters(scan.remaining \o <<BoundCluster(k)>>, scan.pool)

\* a vehicle took a cluster while the pool, listed smaller cluster first,
\* held a smaller one that fitted it too
C9_Witness ==
  \E k \in BoundScans :
    /\ Len(scans[k].pool) >= 2
    /\ scans[k].pool[1] # <<>>
    /\ DemandOfOrders(scans[k].pool[1]) < DemandOfOrders(BoundCluster(k))
    /\ 1 \in FittingIn(scans[k].pool, db_vehicles[scans[k].vehicle])

\* the clusters KMeans built: those still in the pool and those bound
AllClusters == Range(order_clusters) \cup {BoundCluster(k) : k \in BoundScans}

\* the clusters are built, and no non-empty one fits any loaded vehicle
NothingFits ==
  /\ pc \notin {"start", "fetch", "clustering", "cluster"}
  /\ order_clusters # <<>>
  /\ \A c \in AllClusters : \A k \in 1..Len(vehicles) :
       c = <<>> \/ DemandOfOrders(c) > db_vehicles[vehicles[k]]

\* C10: if no non-empty cluster fits any vehicle, the job starts no GA run,
\* calls the routing oracle never, persists nothing and ends in SUCCESS with
\* total_tasks_created = 0 and an empty task list.
C10_NothingFitsNothingCreated ==
  NothingFits =>
    /\ ga_runs = <<>>
    /\ matrix_calls = 0
    /\ route_calls = 0
    /\ tasks = <<>>
    /\ task_stops = <<>>
    /\ ~JobFailed
    /\ pc \in {"returned", "done"} => retval = CompleteValue(NoResult)
    /\ Finished => state = "SUCCESS" /\ info = CompleteValue(NoResult)
    /\ poll.finished => poll = [finished |-> TRUE, status |-> "Success",
                                result |-> NoResult, error |-> ""]

\* one order whose demand exceeds every loaded vehicle, polled after the end
C10_Witness ==
  /\ NothingFits
  /\ Len(orders) = 1
  /\ Len(vehicles) = 2
  /\ poll.finished

\* the last call of the matrix oracle failed or answered without 'distances'
OracleFailed ==
  /\ matrix_replies # <<>>
  /\ Last(matrix_replies) \in {"none", "no_distances"}

\* C13: when the matrix oracle fails or answers without 'distances', the GA
\* run fails at once with the "Failed to retrieve distance matrix" error: the
\* step that gets the reply is the run's first, it leaves the population
\* phase unentered (no chromosome is created, evaluated or returned, no
\* polyline call is made), and from then on the job is in its failure path
\* with no Task persisted for the vehicle of that run.
C13_MatrixFailureFailsRun ==
  /\ [](OracleFailed =>
         /\ exc = MatrixFailed
         /\ pc \in {"except", "returned", "done"}
         /\ ga.distance_matrix = NoGA.distance_matrix
         /\ Len(ga_returns) = Len(ga_runs) - 1
         /\ (ga_returns = <<>> => best_chromosome = NoChromosome /\ route_calls = 0)
         /\ \A k \in 1..Len(tasks) : tasks[k].vehicle_id # Last(ga_runs))
  /\ [][OracleFailed' /\ ~OracleFailed =>
           /\ pc = "ga_run"
           /\ pc' = "except"
           /\ UNCHANGED <<best_chromosome, route_calls, tasks, task_stops, ga_returns>>]_vars

\* a job whose matrix call answered without 'distances' has ended
C13_Witness ==
  /\ Finished
  /\ matrix_replies = <<"no_distances">>
  /\ exc = MatrixFailed

\* the solve or the persistence of a bound vehicle raised
SolveOrPersistFailed == JobFailed /\ ga_runs # <<>>

\* C15: when the solve or the persistence for the k-th bound vehicle fails,
\* the Tasks and TaskStops committed before stay as they are (the failure
\* path writes nothing to the database), no Task exists for the k-th or a
\* later vehicle, and the finished job is in state FAILURE with the error
\* message as its meta.
C15_FailureKeepsEarlierTasks ==
  /\ [](SolveOrPersistFailed =>
         \A k \in 1..Len(tasks) :
           \A n \in i..Len(vehicles) : tasks[k].vehicle_id # vehicles[n])
  /\ [](SolveOrPersistFailed /\ Finished =>
         /\ state = "FAILURE"
         /\ info.exc_message = exc.message)
  /\ [][SolveOrPersistFailed => UNCHANGED <<tasks, task_stops>>]_vars

\* the matrix of the current run is filled and every permutation of the
\* cluster's customers (two or more of them) decodes to routes with an
\* unreachable edge
UnreachableCluster ==
  LET customers == Tail(ga.locations)
      size == Len(customers)
  IN /\ ga.distance_matrix # NoGA.distance_matrix
     /\ size >= 2
     /\ \A order \in Orderings(1..size) :
          Evaluate([k \in 1..size |-> customers[order[k]]], Head(ga.locations),
                   ga.vehicle_capacity, ga.distance_matrix).total_distance = Inf

\* C16: when every permutation of the cluster's customers has an unreachable
\* edge, the solve does not return a chromosome: the run ends as a failure
\* of its own (not the failure of a later step), and no Task with an
\* infinite total_distance is persisted.
C16_UnreachableFailsSolve ==
  /\ UnreachableCluster =>
       /\ pc \notin {"ga_geometries", "persist"}
       /\ Len(ga_returns) < Len(ga_runs)
       /\ (pc \in {"returned", "done"} => JobFailed /\ exc # NoAssigned)
  /\ \A k \in 1..Len(tasks) : tasks[k].total_distance # Inf

\* the progress events emitted so far, in order
ProgressEvents == SelectSeq(events, LAMBDA e : e # "FAILURE")

Stages ==
  <<"Fetching data...", "Clustering orders...",
    "Assigning clusters and optimizing routes...">>

\* C19: the progress events are a prefix of 'Fetching data', 'Clustering
\* orders', 'Assigning clusters and optimizing routes' (each at most once, in
\* that order); nothing is loaded before the first, nothing is clustered
\* before the second, no vehicle is scanned and no GA run starts before the
\* third; and a Task exists only for a vehicle whose GA run has returned.
C19_StagesInOrder ==
  /\ Len(ProgressEvents) <= Len(Stages)
  /\ ProgressEvents = SubSeq(Stages, 1, Len(ProgressEvents))
  /\ (vehicles # <<>> \/ orders # <<>> \/ depot # 0) => Len(ProgressEvents) >= 1
  /\ order_clusters # <<>> => Len(ProgressEvents) >= 2
  /\ (scans # <<>> \/ ga_runs # <<>> \/ matrix_calls > 0) => Len(ProgressEvents) = 3
  /\ \A k \in 1..Len(tasks) : tasks[k].vehicle_id \in Range(ga_returns)

\* a GA run has started and returned after the three events
C19_Witness ==
  /\ ProgressEvents = Stages
  /\ ga_returns # <<>>
  /\ pc = "persist"

\* the customer ids of the stops of task t, in stop order
StopCustomers(t) ==
  LET stops == SelectSeq(task_stops, LAMBDA st : st.task_id = t)
  IN [k \in 1..Len(stops) |-> stops[k].customer_id]

\* the persistence step of the last GA run that returned is over
PersistStepOver ==
  /\ ga_returns # <<>>
  /\ Len(ga_runs) = Len(ga_returns)
  /\ pc # "persist"

\* C12: once the persistence step for a solved vehicle is over, that vehicle
\* has a Task whose stops carry, in order, the customer ids of the genes of
\* the best chromosome: one TaskStop per customer location of the assigned
\* cluster, none dropped.
C12_StopsMatchGenes ==
  PersistStepOver =>
    \E k \in 1..Len(tasks) :
      /\ tasks[k].vehicle_id = Last(ga_returns)
      /\ StopCustomers(tasks[k].id) =
           [n \in 1..Len(best_chromosome.genes) |-> best_chromosome.genes[n].id]

\* the ids met when the sub-routes are read left to right from position p of
\* sub-route r, the entries carrying the depot's id left out
RECURSIVE VisitsFrom(_, _, _, _)
VisitsFrom(routes, r, p, depot_id) ==
  IF r > Len(routes) THEN <<>>
  ELSE IF p > Len(routes[r]) THEN VisitsFrom(routes, r + 1, 1, depot_id)
  ELSE (IF routes[r][p].id # depot_id THEN <<routes[r][p].id>> ELSE <<>>)
       \o VisitsFrom(routes, r, p + 1, depot_id)

\* the TaskStop rows of task t, in the order they were inserted
StopRows(t) == SelectSeq(task_stops, LAMBDA st : st.task_id = t)

C14_MatrixCallCapped ==
  /\ \A k \in 1..Len(matrix_args) : Len(matrix_args[k]) <= MaxMatrixLocations
  /\ (ga_runs = <<1>> /\ ga_returns = <<>>) =>
       IF Len(ga.locations) > MaxMatrixLocations
       THEN /\ exc = TooManyLocations
            /\ pc = "except"
            /\ matrix_calls = 0
            /\ matrix_args = <<>>
       ELSE /\ matrix_calls = 1
            /\ Len(matrix_args) = 1
            /\ Len(matrix_args[1]) = Len(ga.locations)
            /\ matrix_args[1][1] = DepotXY(depot)
            /\ \A k \in 2..Len(ga.locations) : matrix_args[1][k] = ga.locations[k].xy

\* a run with the depot and 50 customers has failed before the call
C14_Witness ==
  /\ Len(ga.locations) = MaxMatrixLocations + 1
  /\ ga_runs = <<1>>
  /\ exc = TooManyLocations
  /\ matrix_calls = 0

\* the legs of a route: its consecutive pairs and the pair back to the depot
LegsOf(route, depot_loc) ==
  {<<route[k].id, route[k + 1].id>> : k \in 1..(Len(route) - 1)}
  \cup {<<route[Len(route)].id, depot_loc.id>>}

\* some leg of some route of the evaluated population has no entry in the
\* distance matrix
SomeLegMissing ==
  \E k \in 1..Len(population) :
    \E r \in 1..Len(population[k].routes) :
      \E leg \in LegsOf(population[k].routes[r], Head(ga.locations)) :
        leg \notin DOMAIN ga.distance_matrix

\* C17: when calculate_fitness has looked up an id pair that the distance
\* matrix does not hold, the evaluation has failed with an error (it has not
\* gone on with a distance value for that pair).
C17_MissFailsLoudly ==
  (pc = "fitness_done" /\ SomeLegMissing) => exc # NoExc

\* genes is a permutation of the customers of the instance: same length,
\* every customer once, and no entry is the depot
IsPermutation(genes) ==
  LET customers == Tail(ga.locations)
  IN /\ Len(genes) = Len(customers)
     /\ \A c \in 1..Len(customers) :
          Cardinality({k \in 1..Len(genes) : genes[k] = customers[c]}) = 1
     /\ \A k \in 1..Len(genes) : genes[k] # Head(ga.locations)

ListedIds(job) ==
  {job.retval.result.tasks[k].id : k \in 1..Len(job.retval.result.tasks)}

\* a COMPLETE result lists the Tasks the job itself persisted and no other
\* row of the tasks table, and counts them
OwnResult(job) ==
  job.retval.status = "COMPLETE" =>
    /\ ListedIds(job) = Range(job.created_tasks_ids)
    /\ job.retval.result.total_tasks_created = Len(job.created_tasks_ids)
    /\ \A k \in 1..Len(job.retval.result.tasks) :
         job.retval.result.tasks[k] # EarlierTask

\* the clusters, the solver's locations and its distance matrix are made
\* of the orders the job's own request names
OwnInputs(job) ==
  LET mine == {CustomerOf(o) : o \in job.request.order_ids}
  IN /\ \A c \in 1..Len(job.order_clusters) :
          Range(job.order_clusters[c]) \subseteq job.request.order_ids
     /\ \A k \in 2..Len(job.ga.locations) : job.ga.locations[k].id \in mine
     /\ \A key \in DOMAIN job.ga.distance_matrix :
          /\ key[1] \in mine \cup {job.request.depot_id}
          /\ key[2] \in mine \cup {job.request.depot_id}

\* C18: when two dispatch jobs run interleaved against the same database,
\* the result of each lists exactly the Tasks that job persisted and counts
\* only those (never a row another writer put in the tasks table), the
\* clusters, locations and distance matrix of each job come from its own
\* request, and a step of one job leaves the other job's backend entry and
\* locals as they were.
C18_JobsShareNoState ==
  /\ [](OwnResult(Context) /\ OwnResult(other))
  /\ [](OwnInputs(Context) /\ OwnInputs(other))
  /\ [][running' = running => other' = other]_vars

\* one job has returned its COMPLETE result while the other, started
\* before it, is in the middle of its solver run with a distance matrix of
\* its own, and the tasks table holds a row neither of them persisted
C18_Witness ==
  /\ other # <<>>
  /\ retval.status = "COMPLETE"
  /\ other.pc = "ga_evolve"
  /\ other.ga.distance_matrix # NoGA.distance_matrix
  /\ request # other.request
  /\ tasks # <<>>

\* C21: the locations of every GeneticAlgorithm the orchestrator builds have
\* pairwise distinct ids (the depot and one location per order of the cluster).
C21_SolverIdsDistinct ==
  \A a, b \in 1..Len(ga.locations) :
    a # b => ga.locations[a].id # ga.locations[b].id

\* C22: a generation whose population holds an individual strictly fitter
\* than best_fitness_so_far resets the stagnation counter at the end of that
\* same generation (the early stop counts only generations whose own best
\* fitness brought no strict improvement).
C22_ImprovementResetsCounter ==
  [][(generation' = generation + 1
      /\ Less(FirstMin(population').fitness, best_fitness_so_far))
     => generations_without_improvement' = 0]_vars

\* the least fitness of a population
LeastFitness(pop) ==
  CHOOSE f \in {pop[k].fitness : k \in 1..Len(pop)} :
    \A k \in 1..Len(pop) : ~Less(pop[k].fitness, f)

\* C23: from one generation to the next the least fitness of the population
\* does not increase, the individual at position 0 of the new population
\* being the best of the previous one with its genes and fitness unchanged;
\* and the chromosome run() returns is at least as fit as the best of the
\* initial population.
C23_ElitismKeepsTheBest ==
  /\ [][generation' = generation + 1
        => /\ ~Less(LeastFitness(population), LeastFitness(population'))
           /\ \E k \in 1..Len(population) :
                /\ population'[1].genes = population[k].genes
                /\ population'[1].fitness = population[k].fitness
                /\ population[k].fitness = LeastFitness(population)]_vars
  /\ [](pc = "persist" => ~Less(fitness_history[1], best_chromosome.fitness))
  /\ [](\A t \in 1..Len(fitness_history) - 1 :
         ~Less(fitness_history[t], fitness_history[t + 1]))

\* the second generation has been formed, and its population holds, beside
\* the best kept, an individual that is less fit
C23_Witness ==
  /\ generation = 2
  /\ \E k \in 1..Len(population) :
       Less(LeastFitness(population), population[k].fitness)
  /\ LeastFitness(population) # Inf

\* the customers of a decoded chromosome, in visiting order: the sub-routes
\* one after the other, their depot entries left out
RECURSIVE CustomersOf(_, _)
CustomersOf(routes, depot_loc) ==
  IF routes = <<>> THEN <<>>
  ELSE SelectSeq(Head(routes), LAMBDA loc : loc # depot_loc)
       \o CustomersOf(Tail(routes), depot_loc)

\* the chromosome has been through calculate_fitness before
AlreadyEvaluated(c) == c # Chromosome(c.genes)

\* C24: after calculate_fitness the sub-routes of a chromosome, read one
\* after the other without their depot entries, are its genes in the same
\* order, every sub-route starts with the depot, and decoding a chromosome
\* that was decoded before gives the same routes again.
C24_RoutesReencodeToGenes ==
  /\ [](pc = "fitness_done" =>
         \A c \in 1..Len(population) :
           /\ CustomersOf(population[c].routes, Head(ga.locations)) = population[c].genes
           /\ \A r \in 1..Len(population[c].routes) :
                Head(population[c].routes[r]) = Head(ga.locations))
  /\ [][\A c \in 1..Len(population) :
          (pc = "fitness" /\ pc' = "fitness_done" /\ AlreadyEvaluated(population[c]))
          => population'[c].routes = population[c].routes]_vars

\* a chromosome of two customers has been decoded into two sub-routes
C24_Witness ==
  /\ pc = "fitness_done"
  /\ Len(population[1].genes) = 2
  /\ Len(population[1].routes) = 2
  /\ Len(population[1].routes[1]) = 2

\* C25: after calculate_fitness every chromosome has
\* fitness >= total_distance >= 0, and fitness = total_distance exactly when
\* capacity_violation = 0, an infinite total_distance included.
C25_FitnessBoundsDistance ==
  pc = "fitness_done" =>
    \A c \in 1..Len(population) :
      /\ ~Less(population[c].fitness, population[c].total_distance)
      /\ ~Less(population[c].total_distance, 0)
      /\ (population[c].fitness = population[c].total_distance)
           <=> (population[c].capacity_violation = 0)

\* the genes of child outside the positions start + 1 .. end, left to right
OutsideSlice(child, start, end) ==
  SubSeq(child, 1, start) \o SubSeq(child, end + 1, Len(child))

\* child keeps the slice [start, end) of pa in place and carries, in the
\* other positions from left to right, the genes of pb that are not in the
\* slice, in the order pb has them
IsOrderedChild(child, pa, pb, start, end) ==
  /\ Len(child) = Len(pa)
  /\ \A k \in (start + 1)..end : child[k] = pa[k]
  /\ OutsideSlice(child, start, end)
       = SelectSeq(pb, LAMBDA gene : \A k \in (start + 1)..end : gene # pa[k])

\* C26: for parents that are permutations of the same customers (two or
\* more) and cut points start < end, child1 of ordered_crossover is the
\* ordered child of (parent1, parent2), child2 that of (parent2, parent1),
\* both are permutations of the customers, and the call leaves the parents'
\* gene lists as they were.
C26_OrderedCrossover ==
  /\ [](pc = "crossover_done" =>
         /\ IsOrderedChild(offspring_population[1].genes, new_population[1].genes,
                           new_population[2].genes, cut[1], cut[2])
         /\ IsOrderedChild(offspring_population[2].genes, new_population[2].genes,
                           new_population[1].genes, cut[1], cut[2])
         /\ IsPermutation(offspring_population[1].genes)
         /\ IsPermutation(offspring_population[2].genes)
         /\ cut[1] < cut[2])
  /\ [][pc = "crossover" => new_population' = new_population]_vars

\* two different parents over four customers have been crossed with a
\* slice in the middle, and the first child is neither parent
C26_Witness ==
  /\ pc = "crossover_done"
  /\ Len(new_population[1].genes) = 4
  /\ cut = <<1, 3>>
  /\ offspring_population[1].genes # new_population[1].genes
  /\ offspring_population[1].genes # new_population[2].genes

\* C27: when run() has returned, the chromosome returned has the least
\* fitness of the final population, get_route was called once for each of
\* its sub-routes and for nothing else, and its geometries hold one polyline
\* for each sub-route, in sub-route order (each polyline that of the
\* sub-route closed back to the depot).
C27_OnePolylinePerSubRoute ==
  (pc = "persist" /\ population # <<>>) =>
    /\ best_chromosome.fitness = LeastFitness(population)
    /\ \E k \in 1..Len(population) : population[k].genes = best_chromosome.genes
    /\ route_calls = Len(best_chromosome.routes)
    /\ Len(best_chromosome.geometries) = Len(best_chromosome.routes)
    /\ \A r \in 1..Len(best_chromosome.routes) :
         best_chromosome.geometries[r]
           = [k \in 1..Len(best_chromosome.routes[r]) |-> best_chromosome.routes[r][k].xy]
             \o <<Head(ga.locations).xy>>

\* the chromosome is one sub-route, the depot and then all its genes, with
\* no load over the capacity, and costs what it travels
OneFullRoute(c) ==
  /\ c.routes = <<(<<Head(ga.locations)>> \o c.genes)>>
  /\ Len(c.genes) = Len(ga.locations) - 1
  /\ c.capacity_violation = 0
  /\ c.fitness = c.total_distance

\* the demand of the orders of the run, summed
RECURSIVE DemandOfRun(_)
DemandOfRun(os) == IF os = <<>> THEN 0 ELSE DemandOf(Head(os)) + DemandOfRun(Tail(os))

\* C28: in a GA run started by the orchestrator the cluster's demand is at
\* most the vehicle's capacity, and every chromosome of every generation,
\* and the chromosome returned, is decoded to exactly one sub-route holding
\* all the customers, with capacity_violation = 0 and fitness equal to
\* total_distance.
C28_BoundRunsHaveOneRoute ==
  /\ \A k \in 1..Len(population) : OneFullRoute(population[k])
  /\ pc \in {"ga_geometries", "persist"} => OneFullRoute(best_chromosome)

\* a cluster of two orders that fills most of the vehicle has formed the
\* generation after its initial population
C28_Witness ==
  /\ generation = 1
  /\ Len(ga.locations) = 3
  /\ DemandOfRun(orders) > 5
  /\ Len(population) = tournament_size

\* the demand of the customers of a route (its entries after the depot)
RECURSIVE LoadOf(_)
LoadOf(route) ==
  IF Len(route) <= 1 THEN 0 ELSE Last(route).demand + LoadOf(Front(route))

\* the demand the customers carry over the capacity, each counted alone
RECURSIVE ExcessOf(_, _)
ExcessOf(customers, capacity) ==
  IF customers = <<>> THEN 0
  ELSE (IF Head(customers).demand > capacity
        THEN Head(customers).demand - capacity ELSE 0)
       + ExcessOf(Tail(customers), capacity)

\* C29: with demands >= 0, after calculate_fitness a sub-route with two or
\* more customers carries at most the capacity, a sub-route over the
\* capacity is one customer whose own demand is over the capacity, and
\* capacity_violation is the sum over the instance's customers of
\* max(0, demand - capacity), whatever the order of the genes.
C29_OnlySinglesExceed ==
  pc = "fitness_done" =>
    \A c \in 1..Len(population) :
      /\ \A r \in 1..Len(population[c].routes) :
           LET route == population[c].routes[r]
           IN /\ Len(route) >= 3 => LoadOf(route) <= ga.vehicle_capacity
              /\ LoadOf(route) > ga.vehicle_capacity
                   => Len(route) = 2 /\ route[2].demand > ga.vehicle_capacity
      /\ population[c].capacity_violation
           = ExcessOf(Tail(ga.locations), ga.vehicle_capacity)

\* three customers decoded: one whose demand is over the capacity, visited
\* second, alone in its sub-route between two other sub-routes
C29_Witness ==
  /\ pc = "fitness_done"
  /\ Len(population[1].routes) = 3
  /\ Len(population[1].routes[2]) = 2
  /\ population[1].routes[2][2].demand > ga.vehicle_capacity
  /\ Len(population[1].routes[1]) = 2
  /\ population[1].capacity_violation > 0

\* the generational loop of run() has been entered and left, by running
\* out of generations, by the early stop or by an exception
LoopOver ==
  /\ population # <<>>
  /\ pc \in {"ga_best", "ga_geometries", "persist", "except"}

\* C30: when the generational loop has ended, the number g of generations
\* it executed satisfies min(generations, patience) <= g <= generations,
\* and g >= min(generations, patience + 1) when the best fitness of the
\* initial population is finite.
C30_GenerationsExecuted ==
  LoopOver =>
    /\ Min(ga.generations, ga.patience) <= generation
    /\ generation <= ga.generations
    /\ fitness_history[1] # Inf => Min(ga.generations, ga.patience + 1) <= generation

====
